---- MODULE Spec2Model ----
(***************************************************************************)
(* Record-collection managers of the repository: ComputerManager (1.py),   *)
(* MovieManager (4.py) and InventoryManager (5.py).  Each script is its    *)
(* own program: a run constructs one manager over one backing document     *)
(* and then serves menu choices one at a time until the exit choice.       *)
(*                                                                         *)
(* Representation.                                                         *)
(*  - A dataclass instance is a record of its fields; a list is a          *)
(*    sequence.                                                            *)
(*  - The backing document is [exists, parses, data]: whether the file     *)
(*    exists, whether json.load accepts its text, and the array of         *)
(*    objects it holds (each object a function from key to value).         *)
(*  - Float prices are whole numbers of roubles; a product is rounded      *)
(*    down to the rouble.  Weights are whole hundredths of a kilogram.     *)
(*  - Cyrillic string literals are transliterated.                         *)
(*  - Every method is an operator from the collection (and arguments) to   *)
(*    an outcome [coll, saves, ret]: the collection it leaves in memory,   *)
(*    the snapshots it handed to save_data in call order, and what it      *)
(*    returned, raised and printed.  A query is such an operator too; its  *)
(*    outcome keeps the collection and hands nothing to save_data.         *)
(*  - An Optional argument is None or Some(v).  A string is searched       *)
(*    through the tuple of its characters.  A float quotient is the pair   *)
(*    <<numerator, denominator>>.                                          *)
(*  - A returned list that is the manager's own list object is marked      *)
(*    "alias"; main keeps the last search result in its variable results.  *)
(***************************************************************************)
EXTENDS Integers, Sequences, FiniteSets, TLC

VARIABLES
    manager,    \* the class the running script constructs
    pc,         \* "start" (before construction), "menu", "done" (after exit)
    origin,     \* branch load_data took: "none", "seed", "loaded", "failed"
    computers,  \* ComputerManager.computers
    movies,     \* MovieManager.movies
    items,      \* InventoryManager.items
    document,   \* the backing file of the running script
    writes,     \* number of times the backing file has been written
    op,         \* the last call the menu made: [name, id, n]
    returned,   \* what that call returned: [kind, list, num, msg]
    args,       \* the optional criteria of the last call, <<>> when it takes none
    results,    \* main's local variable results: [list, same], same when the
                \* list object is the manager's own list
    discounted  \* history: the ids for which mark_as_sale has cut a price in this run

vars == <<manager, pc, origin, computers, movies, items, document, writes, op, returned,
          args, results, discounted>>

\* Bound on the number of document writes explored in one run.
MaxWrites == 4

\* Bound on the number of document writes explored in runs with queries.
QueryWrites == 2

----------------------------------------------------------------------------
(* Generic helpers *)

\* [f(x) for x in s if p(x)]
RECURSIVE SelectIdx(_, _, _)
SelectIdx(s, keep, i) ==
    IF i > Len(s) THEN <<>>
    ELSE IF i \in keep THEN <<s[i]>> \o SelectIdx(s, keep, i + 1)
         ELSE SelectIdx(s, keep, i + 1)

\* list.pop(index) for 0 <= index < len: the list without its element at
\* 0-based position index
Pop(s, index) == SelectIdx(s, (1..Len(s)) \ {index + 1}, 1)

\* next((x for x in s if x.id == id), None): 1-based position of the first
\* match, 0 for None
FirstWithId(s, id) ==
    IF \E i \in 1..Len(s) : s[i].id = id
    THEN CHOOSE i \in 1..Len(s) : s[i].id = id /\ \A j \in 1..(i - 1) : s[j].id # id
    ELSE 0

NoCall == [name |-> "none", id |-> 0, n |-> 0]
Call(name, id, n) == [name |-> name, id |-> id, n |-> n]

Ret(kind, list, num, msg) == [kind |-> kind, list |-> list, num |-> num, msg |-> msg]
NoRet == Ret("None", <<>>, 0, "")

Outcome(coll, saves, ret) == [coll |-> coll, saves |-> saves, ret |-> ret]

\* main's results before choice 1 has assigned it
NoResults == [list |-> <<>>, same |-> FALSE]

\* the calls whose result main assigns to results
Assigning ==
    {"search_by_criteria", "filter_by_graphics", "search_by_year_range_and_genre",
     "search_by_sport_and_weight"}

\* methods that bind the manager's attribute to a new list object; every
\* other mutating method changes the list object or its records in place
Rebinding == {"delete_by_id", "delete_zero_quantity"}

\* the list main's results refers to, after a method took the manager's
\* list from old to new. Records are shared objects: a record changed in
\* place shows through every list holding it (a record object is told by
\* its field values)
Aliased(res, name, old, new) ==
    IF res.same
    THEN IF name \in Rebinding THEN [res EXCEPT !.same = FALSE]
         ELSE [res EXCEPT !.list = new]
    ELSE IF name \in Rebinding \/ Len(new) # Len(old) THEN res
         ELSE [res EXCEPT !.list =
                  [j \in 1..Len(res.list) |->
                      IF \E i \in 1..Len(old) : old[i] = res.list[j]
                      THEN new[CHOOSE i \in 1..Len(old) : old[i] = res.list[j]]
                      ELSE res.list[j]]]

AbsentDocument == [exists |-> FALSE, parses |-> FALSE, data |-> <<>>]
\* a file whose text json.load rejects
GarbageDocument == [exists |-> TRUE, parses |-> FALSE, data |-> <<>>]

\* json.dump(data, f) into a file opened with 'w': the file holds exactly data
json_dump(data) == [exists |-> TRUE, parses |-> TRUE, data |-> data]

\* the file after the save calls of one operation, and the write count
\* the file after saves that open it with 'a': the new text follows the
\* old, which no longer parses when there was any
AfterSaves_append(doc, dumps) ==
    IF dumps = <<>> THEN doc
    ELSE IF doc.exists THEN [exists |-> TRUE, parses |-> FALSE, data |-> <<>>]
    ELSE dumps[Len(dumps)]

AfterSaves(doc, dumps) == IF dumps = <<>> THEN doc ELSE dumps[Len(dumps)]

\* Optional[T]: None, or a value
None == <<>>
Some(v) == <<v>>

\* truth value of an Optional[str]: None and "" are false
Truthy(o) == o # None /\ o[1] # ""

\* the characters of the strings that occur in searched fields and in
\* search terms
CharTable ==
    ("NVIDIA RTX 4090" :> <<"N", "V", "I", "D", "I", "A", " ", "R", "T", "X", " ", "4", "0", "9", "0">>) @@
    ("NVIDIA RTX 4080" :> <<"N", "V", "I", "D", "I", "A", " ", "R", "T", "X", " ", "4", "0", "8", "0">>) @@
    ("NVIDIA RTX 4070" :> <<"N", "V", "I", "D", "I", "A", " ", "R", "T", "X", " ", "4", "0", "7", "0">>) @@
    ("NVIDIA RTX 3060" :> <<"N", "V", "I", "D", "I", "A", " ", "R", "T", "X", " ", "3", "0", "6", "0">>) @@
    ("NVIDIA GTX 1660" :> <<"N", "V", "I", "D", "I", "A", " ", "G", "T", "X", " ", "1", "6", "6", "0">>) @@
    ("NVIDIA GTX 1050" :> <<"N", "V", "I", "D", "I", "A", " ", "G", "T", "X", " ", "1", "0", "5", "0">>) @@
    ("NVIDIA GTX 1060" :> <<"N", "V", "I", "D", "I", "A", " ", "G", "T", "X", " ", "1", "0", "6", "0">>) @@
    ("AMD RX 550" :> <<"A", "M", "D", " ", "R", "X", " ", "5", "5", "0">>) @@
    ("NVIDIA GTX 1650" :> <<"N", "V", "I", "D", "I", "A", " ", "G", "T", "X", " ", "1", "6", "5", "0">>) @@
    ("drama" :> <<"d", "r", "a", "m", "a">>) @@
    ("kriminal" :> <<"k", "r", "i", "m", "i", "n", "a", "l">>) @@
    ("boevik" :> <<"b", "o", "e", "v", "i", "k">>) @@
    ("triller" :> <<"t", "r", "i", "l", "l", "e", "r">>) @@
    ("fantastika" :> <<"f", "a", "n", "t", "a", "s", "t", "i", "k", "a">>) @@
    ("vestern" :> <<"v", "e", "s", "t", "e", "r", "n">>) @@
    ("komediya" :> <<"k", "o", "m", "e", "d", "i", "y", "a">>) @@
    ("multfilm" :> <<"m", "u", "l", "t", "f", "i", "l", "m">>) @@
    ("futbol" :> <<"f", "u", "t", "b", "o", "l">>) @@
    ("basketbol" :> <<"b", "a", "s", "k", "e", "t", "b", "o", "l">>) @@
    ("tennis" :> <<"t", "e", "n", "n", "i", "s">>) @@
    ("fitnes" :> <<"f", "i", "t", "n", "e", "s">>) @@
    ("tyazhelaya atletika" :> <<"t", "y", "a", "z", "h", "e", "l", "a", "y", "a", " ", "a", "t", "l", "e", "t", "i", "k", "a">>) @@
    ("boks" :> <<"b", "o", "k", "s">>) @@
    ("velosport" :> <<"v", "e", "l", "o", "s", "p", "o", "r", "t">>) @@
    ("lyzhnyj sport" :> <<"l", "y", "z", "h", "n", "y", "j", " ", "s", "p", "o", "r", "t">>) @@
    ("krossfit" :> <<"k", "r", "o", "s", "s", "f", "i", "t">>) @@
    ("gimnastika" :> <<"g", "i", "m", "n", "a", "s", "t", "i", "k", "a">>) @@
    ("" :> <<>>) @@
    ("rtx" :> <<"r", "t", "x">>) @@
    ("GTX 10" :> <<"G", "T", "X", " ", "1", "0">>) @@
    ("Dram" :> <<"D", "r", "a", "m">>) @@
    ("BOL" :> <<"B", "O", "L">>)

chars(s) == CharTable[s]

UpperCase ==
    <<"A", "B", "C", "D", "E", "F", "G", "H", "I", "J", "K", "L", "M",
      "N", "O", "P", "Q", "R", "S", "T", "U", "V", "W", "X", "Y", "Z">>
LowerCase ==
    <<"a", "b", "c", "d", "e", "f", "g", "h", "i", "j", "k", "l", "m",
      "n", "o", "p", "q", "r", "s", "t", "u", "v", "w", "x", "y", "z">>

\* str.lower(), on the characters of a string
ToLower ==
    [c \in {UpperCase[k] : k \in 1..Len(UpperCase)} |->
        LowerCase[CHOOSE k \in 1..Len(UpperCase) : UpperCase[k] = c]]

lower(cs) == [i \in 1..Len(cs) |-> IF cs[i] \in DOMAIN ToLower THEN ToLower[cs[i]] ELSE cs[i]]

\* needle in hay, for the characters of two strings
in(needle, hay) ==
    \E k \in 0..(Len(hay) - Len(needle)) :
        \A i \in 1..Len(needle) : hay[k + i] = needle[i]

\* a.lower() in b.lower()
lower_in(a, b) == in(lower(chars(a)), lower(chars(b)))

\* sorted(s, key=..., reverse=...), keys[i] the key of s[i]: a stable sort,
\* equal keys keep their order with reverse=True as well
sorted(s, keys, reverse) ==
    LET before(j, i) ==
            \/ IF reverse THEN keys[j] > keys[i] ELSE keys[j] < keys[i]
            \/ keys[j] = keys[i] /\ j < i
        rank == [i \in 1..Len(s) |-> Cardinality({j \in 1..Len(s) : before(j, i)}) + 1]
    IN  [r \in 1..Len(s) |-> s[CHOOSE i \in 1..Len(s) : rank[i] = r]]

\* max(s, key=...) and min(s, key=...) of a non-empty list: the position of
\* the first element whose key is the largest, the smallest
max(keys) ==
    CHOOSE i \in 1..Len(keys) :
        /\ \A j \in 1..Len(keys) : keys[j] <= keys[i]
        /\ \A j \in 1..(i - 1) : keys[j] < keys[i]
min(keys) ==
    CHOOSE i \in 1..Len(keys) :
        /\ \A j \in 1..Len(keys) : keys[j] >= keys[i]
        /\ \A j \in 1..(i - 1) : keys[j] > keys[i]

\* sum(...) over a list of numbers
RECURSIVE sum(_)
sum(xs) == IF xs = <<>> THEN 0 ELSE xs[1] + sum(Tail(xs))

----------------------------------------------------------------------------
(* 1.py: GamingComputer and ComputerManager *)

GamingComputer(id, model, processor, ram, ssd, graphics_card, price) ==
    [id |-> id, model |-> model, processor |-> processor, ram |-> ram, ssd |-> ssd,
     graphics_card |-> graphics_card, price |-> price, is_on_sale |-> FALSE]

GamingComputer_to_dict(c) ==
    [id |-> c.id, model |-> c.model, processor |-> c.processor, ram |-> c.ram,
     ssd |-> c.ssd, graphics_card |-> c.graphics_card, price |-> c.price,
     is_on_sale |-> c.is_on_sale]

\* keys from_dict reads with data[...]: a missing one raises KeyError
GamingComputer_required == {"id", "model", "processor", "ram", "ssd", "graphics_card", "price"}

GamingComputer_from_dict_raises(data) == ~(GamingComputer_required \subseteq DOMAIN data)

GamingComputer_from_dict(data) ==
    [id |-> data.id, model |-> data.model, processor |-> data.processor, ram |-> data.ram,
     ssd |-> data.ssd, graphics_card |-> data.graphics_card, price |-> data.price,
     is_on_sale |-> IF "is_on_sale" \in DOMAIN data THEN data.is_on_sale ELSE FALSE]

ComputerManager_save_data(cs) ==
    json_dump([i \in 1..Len(cs) |-> GamingComputer_to_dict(cs[i])])

sample_computers ==
    << GamingComputer(1, "GameMaster Pro", "Intel i9-13900K", 32, 1000, "NVIDIA RTX 4090", 250000),
       GamingComputer(2, "Striker Elite", "AMD Ryzen 9 7950X", 64, 2000, "NVIDIA RTX 4080", 320000),
       GamingComputer(3, "PowerPlay", "Intel i7-13700K", 16, 512, "NVIDIA RTX 4070", 150000),
       GamingComputer(4, "Budget Gamer", "AMD Ryzen 5 7600", 16, 512, "NVIDIA RTX 3060", 90000),
       GamingComputer(5, "Starter Pack", "Intel i5-13400F", 8, 256, "NVIDIA GTX 1660", 55000) >>

\* init_sample_data that installs the seed without calling save_data
ComputerManager_init_sample_data_unsaved ==
    Outcome(sample_computers, <<>>, Ret("None", <<>>, 0, "seeded"))

ComputerManager_init_sample_data ==
    Outcome(sample_computers, <<sample_computers>>, Ret("None", <<>>, 0, "seeded"))

\* load_data that appends record by record and keeps what it had built
\* when a record fails
ComputerManager_load_data_keeps_prefix(doc) ==
    IF doc.exists
    THEN IF doc.parses
         THEN LET bad == {i \in 1..Len(doc.data) : GamingComputer_from_dict_raises(doc.data[i])}
                  n == IF bad = {} THEN Len(doc.data)
                       ELSE (CHOOSE i \in bad : \A j \in bad : i <= j) - 1
              IN  Outcome([i \in 1..n |-> GamingComputer_from_dict(doc.data[i])], <<>>,
                          Ret("None", <<>>, 0, IF bad = {} THEN "loaded" ELSE "load_error"))
         ELSE Outcome(<<>>, <<>>, Ret("None", <<>>, 0, "load_error"))
    ELSE ComputerManager_init_sample_data

ComputerManager_load_data(doc) ==
    IF doc.exists
    THEN IF doc.parses /\ \A i \in 1..Len(doc.data) : ~GamingComputer_from_dict_raises(doc.data[i])
         THEN Outcome([i \in 1..Len(doc.data) |-> GamingComputer_from_dict(doc.data[i])],
                      <<>>, Ret("None", <<>>, 0, "loaded"))
         ELSE Outcome(<<>>, <<>>, Ret("None", <<>>, 0, "load_error"))
    ELSE ComputerManager_init_sample_data

\* add_computer without the uniqueness check
add_computer_unchecked(cs, computer) ==
    LET new == Append(cs, computer)
    IN  Outcome(new, <<new>>, Ret("None", <<>>, 0, "added"))

\* add_computer that writes the file before it raises on a duplicate
add_computer_saves_on_duplicate(cs, computer) ==
    IF \E i \in 1..Len(cs) : cs[i].id = computer.id
    THEN Outcome(cs, <<cs>>, Ret("ValueError", <<>>, 0, "already_exists"))
    ELSE LET new == Append(cs, computer)
         IN  Outcome(new, <<new>>, Ret("None", <<>>, 0, "added"))

\* add_computer with insert(0, computer) in place of append
add_computer_prepend(cs, computer) ==
    IF \E i \in 1..Len(cs) : cs[i].id = computer.id
    THEN Outcome(cs, <<>>, Ret("ValueError", <<>>, 0, "already_exists"))
    ELSE LET new == <<computer>> \o cs
         IN  Outcome(new, <<new>>, Ret("None", <<>>, 0, "added"))

add_computer(cs, computer) ==
    IF \E i \in 1..Len(cs) : cs[i].id = computer.id
    THEN Outcome(cs, <<>>, Ret("ValueError", <<>>, 0, "already_exists"))
    ELSE LET new == Append(cs, computer)
         IN  Outcome(new, <<new>>, Ret("None", <<>>, 0, "added"))

\* delete_by_id that saves whether or not a record was removed
delete_by_id_always_saves(cs, computer_id) ==
    LET new == SelectIdx(cs, {i \in 1..Len(cs) : cs[i].id # computer_id}, 1)
    IN  IF Len(new) < Len(cs)
        THEN Outcome(new, <<new>>, Ret("None", <<>>, 0, "deleted"))
        ELSE Outcome(new, <<new>>, Ret("None", <<>>, 0, "not_found"))

delete_by_id(cs, computer_id) ==
    LET new == SelectIdx(cs, {i \in 1..Len(cs) : cs[i].id # computer_id}, 1)
    IN  IF Len(new) < Len(cs)
        THEN Outcome(new, <<new>>, Ret("None", <<>>, 0, "deleted"))
        ELSE Outcome(new, <<>>, Ret("None", <<>>, 0, "not_found"))

\* delete_by_index without the lower bound: pop(index) with a negative index
\* counts from the end of the list
delete_by_index_negative(cs, index) ==
    IF index < Len(cs) /\ -Len(cs) <= index
    THEN LET new == Pop(cs, IF index < 0 THEN Len(cs) + index ELSE index)
         IN  Outcome(new, <<new>>, Ret("None", <<>>, 0, "deleted"))
    ELSE Outcome(cs, <<>>, Ret("None", <<>>, 0, "bad_index"))

\* removal that moves the last record into the freed position
delete_by_index_swap_remove(cs, index) ==
    IF 0 <= index /\ index < Len(cs)
    THEN LET new == [k \in 1..(Len(cs) - 1) |->
                        IF k = index + 1 THEN cs[Len(cs)] ELSE cs[k]]
         IN  Outcome(new, <<new>>, Ret("None", <<>>, 0, "deleted"))
    ELSE Outcome(cs, <<>>, Ret("None", <<>>, 0, "bad_index"))

delete_by_index(cs, index) ==
    IF 0 <= index /\ index < Len(cs)
    THEN LET new == Pop(cs, index)
         IN  Outcome(new, <<new>>, Ret("None", <<>>, 0, "deleted"))
    ELSE Outcome(cs, <<>>, Ret("None", <<>>, 0, "bad_index"))

\* upgrade_ram with save_data moved out of the found branch
upgrade_ram_saves_when_missing(cs, computer_id, additional_ram) ==
    LET k == FirstWithId(cs, computer_id)
    IN  IF k # 0
        THEN LET new == [cs EXCEPT ![k].ram = @ + additional_ram]
             IN  Outcome(new, <<new>>, Ret("None", <<>>, 0, "upgraded"))
        ELSE Outcome(cs, <<cs>>, Ret("None", <<>>, 0, "not_found"))

upgrade_ram(cs, computer_id, additional_ram) ==
    LET k == FirstWithId(cs, computer_id)
    IN  IF k # 0
        THEN LET new == [cs EXCEPT ![k].ram = @ + additional_ram]
             IN  Outcome(new, <<new>>, Ret("None", <<>>, 0, "upgraded"))
        ELSE Outcome(cs, <<>>, Ret("None", <<>>, 0, "not_found"))

\* mark_as_sale without the test of the flag: every call cuts the price
mark_as_sale_every_call(cs, computer_id) ==
    LET k == FirstWithId(cs, computer_id)
    IN  IF k # 0
        THEN LET new == [cs EXCEPT ![k].is_on_sale = TRUE, ![k].price = (@ * 9) \div 10]
             IN  Outcome(new, <<new>>, Ret("None", <<>>, 0, "marked"))
        ELSE Outcome(cs, <<>>, Ret("None", <<>>, 0, "not_found"))

mark_as_sale(cs, computer_id) ==
    LET k == FirstWithId(cs, computer_id)
    IN  IF k # 0
        THEN IF ~cs[k].is_on_sale
             THEN LET new == [cs EXCEPT ![k].is_on_sale = TRUE,
                                        ![k].price = (@ * 9) \div 10]
                  IN  Outcome(new, <<new>>, Ret("None", <<>>, 0, "marked"))
             ELSE Outcome(cs, <<>>, Ret("None", <<>>, 0, "already_on_sale"))
        ELSE Outcome(cs, <<>>, Ret("None", <<>>, 0, "not_found"))

\* a search that keeps the records meeting any one supplied criterion
search_by_criteria_any(cs, min_ram, max_price, min_ssd, graphics_required) ==
    LET same == /\ min_ram = None /\ max_price = None /\ min_ssd = None
                /\ ~Truthy(graphics_required)
        keep == {i \in 1..Len(cs) :
                    \/ min_ram # None /\ cs[i].ram >= min_ram[1]
                    \/ max_price # None /\ cs[i].price <= max_price[1]
                    \/ min_ssd # None /\ cs[i].ssd >= min_ssd[1]
                    \/ Truthy(graphics_required)
                          /\ lower_in(graphics_required[1], cs[i].graphics_card)}
    IN  Outcome(cs, <<>>, Ret("list", IF same THEN cs ELSE SelectIdx(cs, keep, 1), 0,
                              IF same THEN "alias" ELSE ""))

\* a search that tests the numeric criteria for truth, as it does the
\* string: a supplied 0 is skipped
search_by_criteria_truthy(cs, min_ram, max_price, min_ssd, graphics_required) ==
    LET on(o) == o # None /\ o[1] # 0
        keep == {i \in 1..Len(cs) :
                    /\ on(min_ram) => cs[i].ram >= min_ram[1]
                    /\ on(max_price) => cs[i].price <= max_price[1]
                    /\ on(min_ssd) => cs[i].ssd >= min_ssd[1]
                    /\ Truthy(graphics_required)
                          => lower_in(graphics_required[1], cs[i].graphics_card)}
        same == /\ ~on(min_ram) /\ ~on(max_price) /\ ~on(min_ssd)
                /\ ~Truthy(graphics_required)
    IN  Outcome(cs, <<>>, Ret("list", IF same THEN cs ELSE SelectIdx(cs, keep, 1), 0,
                              IF same THEN "alias" ELSE ""))

\* results = self.computers, then one list comprehension per supplied
\* criterion; with none supplied the manager's own list is returned
search_by_criteria(cs, min_ram, max_price, min_ssd, graphics_required) ==
    LET r1 == IF min_ram # None
              THEN SelectIdx(cs, {i \in 1..Len(cs) : cs[i].ram >= min_ram[1]}, 1)
              ELSE cs
        r2 == IF max_price # None
              THEN SelectIdx(r1, {i \in 1..Len(r1) : r1[i].price <= max_price[1]}, 1)
              ELSE r1
        r3 == IF min_ssd # None
              THEN SelectIdx(r2, {i \in 1..Len(r2) : r2[i].ssd >= min_ssd[1]}, 1)
              ELSE r2
        r4 == IF Truthy(graphics_required)
              THEN SelectIdx(r3, {i \in 1..Len(r3) :
                                    lower_in(graphics_required[1], r3[i].graphics_card)}, 1)
              ELSE r3
        same == /\ min_ram = None /\ max_price = None /\ min_ssd = None
                /\ ~Truthy(graphics_required)
    IN  Outcome(cs, <<>>, Ret("list", r4, 0, IF same THEN "alias" ELSE ""))

\* self.computers.sort(...) in the place of sorted(self.computers, ...)
ComputerManager_sort_by_price_in_place(cs, ascending) ==
    LET new == sorted(cs, [i \in 1..Len(cs) |-> cs[i].price], ~ascending)
    IN  Outcome(new, <<>>, Ret("list", new, 0, "alias"))

ComputerManager_sort_by_price(cs, ascending) ==
    Outcome(cs, <<>>,
            Ret("list", sorted(cs, [i \in 1..Len(cs) |-> cs[i].price], ~ascending), 0, ""))

\* the descending order got by reversing the ascending one
sort_by_ram_ssd_sum_reversed(cs, ascending) ==
    LET up == sorted(cs, [i \in 1..Len(cs) |-> cs[i].ram + cs[i].ssd], FALSE)
    IN  Outcome(cs, <<>>,
                Ret("list", IF ascending THEN up
                            ELSE [k \in 1..Len(up) |-> up[Len(up) + 1 - k]], 0, ""))

sort_by_ram_ssd_sum(cs, ascending) ==
    Outcome(cs, <<>>,
            Ret("list", sorted(cs, [i \in 1..Len(cs) |-> cs[i].ram + cs[i].ssd], ~ascending),
                0, ""))

\* the extremes read off the two ends of the list sorted by price
get_price_extremes_by_sorting(cs) ==
    IF cs = <<>>
    THEN Outcome(cs, <<>>, Ret("tuple", <<None, None>>, 0, ""))
    ELSE LET up == sorted(cs, [i \in 1..Len(cs) |-> cs[i].price], FALSE)
         IN  Outcome(cs, <<>>, Ret("tuple", <<up[Len(up)], up[1]>>, 0, ""))

\* the tuple (most_expensive, cheapest); (None, None) for an empty list
get_price_extremes(cs) ==
    IF cs = <<>>
    THEN Outcome(cs, <<>>, Ret("tuple", <<None, None>>, 0, ""))
    ELSE LET most_expensive == cs[max([i \in 1..Len(cs) |-> cs[i].price])]
             cheapest == cs[min([i \in 1..Len(cs) |-> cs[i].price])]
         IN  Outcome(cs, <<>>, Ret("tuple", <<most_expensive, cheapest>>, 0, ""))

filter_by_graphics(cs, min_graphics) ==
    Outcome(cs, <<>>,
            Ret("list",
                SelectIdx(cs, {i \in 1..Len(cs) : lower_in(min_graphics, cs[i].graphics_card)}, 1),
                0, ""))

----------------------------------------------------------------------------
(* 4.py: Movie and MovieManager.  Ratings are whole tenths. *)

Movie(id, title, year, genre, duration, rating, price) ==
    [id |-> id, title |-> title, year |-> year, genre |-> genre, duration |-> duration,
     rating |-> rating, price |-> price, is_epic |-> FALSE]

Movie_to_dict(m) ==
    [id |-> m.id, title |-> m.title, year |-> m.year, genre |-> m.genre,
     duration |-> m.duration, rating |-> m.rating, price |-> m.price,
     is_epic |-> m.is_epic]

Movie_required == {"id", "title", "year", "genre", "duration", "rating", "price"}

Movie_from_dict_raises(data) == ~(Movie_required \subseteq DOMAIN data)

Movie_from_dict(data) ==
    [id |-> data.id, title |-> data.title, year |-> data.year, genre |-> data.genre,
     duration |-> data.duration, rating |-> data.rating, price |-> data.price,
     is_epic |-> IF "is_epic" \in DOMAIN data THEN data.is_epic ELSE FALSE]

MovieManager_save_data(ms) ==
    json_dump([i \in 1..Len(ms) |-> Movie_to_dict(ms[i])])

sample_movies_raw ==
    << Movie(1, "Pobeg iz Shoushenka", 1994, "drama", 142, 93, 350),
       Movie(2, "Krestnyj otec", 1972, "kriminal", 175, 92, 400),
       Movie(3, "Temnyj rycar", 2008, "boevik", 152, 90, 380),
       Movie(4, "Kriminalnoe chtivo", 1994, "kriminal", 154, 89, 320),
       Movie(5, "Bojcovskij klub", 1999, "triller", 139, 88, 300),
       Movie(6, "Forrest Gamp", 1994, "drama", 142, 88, 330),
       Movie(7, "Nachalo", 2010, "fantastika", 148, 88, 390),
       Movie(8, "Matrica", 1999, "fantastika", 136, 87, 310),
       Movie(9, "Horoshij, plohoj, zloj", 1966, "vestern", 178, 88, 280),
       Movie(10, "Zelenaya milya", 1999, "drama", 189, 89, 340),
       Movie(11, "Spisok Shindlera", 1993, "drama", 195, 90, 360),
       Movie(12, "1+1", 2011, "komediya", 112, 88, 320),
       Movie(13, "Interstellar", 2014, "fantastika", 169, 87, 400),
       Movie(14, "Gladiator", 2000, "boevik", 155, 85, 330),
       Movie(15, "Korol Lev", 1994, "multfilm", 88, 85, 300) >>

\* for movie in sample_movies: movie.is_epic = movie.duration > 150
sample_movies ==
    [i \in 1..Len(sample_movies_raw) |->
        [sample_movies_raw[i] EXCEPT !.is_epic = sample_movies_raw[i].duration > 150]]

MovieManager_init_sample_data ==
    Outcome(sample_movies, <<sample_movies>>, Ret("None", <<>>, 0, "seeded"))

MovieManager_load_data(doc) ==
    IF doc.exists
    THEN IF doc.parses /\ \A i \in 1..Len(doc.data) : ~Movie_from_dict_raises(doc.data[i])
         THEN Outcome([i \in 1..Len(doc.data) |-> Movie_from_dict(doc.data[i])],
                      <<>>, Ret("None", <<>>, 0, "loaded"))
         ELSE [MovieManager_init_sample_data EXCEPT !.ret.msg = "load_error"]
    ELSE MovieManager_init_sample_data

increase_price_for_old_movies(ms, year_threshold, increase_percent) ==
    LET hit == {i \in 1..Len(ms) : ms[i].year < year_threshold}
        new == [i \in 1..Len(ms) |->
                   IF i \in hit
                   THEN [ms[i] EXCEPT !.price = (@ * (100 + increase_percent)) \div 100]
                   ELSE ms[i]]
        affected_movies == SelectIdx(new, hit, 1)
    IN  IF affected_movies # <<>>
        THEN Outcome(new, <<new>>, Ret("list", affected_movies, 0, "increased"))
        ELSE Outcome(new, <<>>, Ret("list", affected_movies, 0, "none_old"))

\* mark_epic_movies that recomputes the flag of every movie from the
\* threshold
mark_epic_movies_recomputes(ms, duration_threshold) ==
    LET new == [i \in 1..Len(ms) |->
                   [ms[i] EXCEPT !.is_epic = ms[i].duration > duration_threshold]]
        hit == {i \in 1..Len(ms) : new[i] # ms[i]}
        marked_movies == SelectIdx(new, hit, 1)
    IN  IF marked_movies # <<>>
        THEN Outcome(new, <<new>>, Ret("list", marked_movies, 0, "marked"))
        ELSE Outcome(new, <<>>, Ret("list", marked_movies, 0, "none_new"))

mark_epic_movies(ms, duration_threshold) ==
    LET hit == {i \in 1..Len(ms) : ms[i].duration > duration_threshold /\ ~ms[i].is_epic}
        new == [i \in 1..Len(ms) |->
                   IF i \in hit THEN [ms[i] EXCEPT !.is_epic = TRUE] ELSE ms[i]]
        marked_movies == SelectIdx(new, hit, 1)
    IN  IF marked_movies # <<>>
        THEN Outcome(new, <<new>>, Ret("list", marked_movies, 0, "marked"))
        ELSE Outcome(new, <<>>, Ret("list", marked_movies, 0, "none_new"))

search_by_year_range_and_genre(ms, year_from, year_to, genre) ==
    LET r1 == IF year_from # None
              THEN SelectIdx(ms, {i \in 1..Len(ms) : ms[i].year >= year_from[1]}, 1)
              ELSE ms
        r2 == IF year_to # None
              THEN SelectIdx(r1, {i \in 1..Len(r1) : r1[i].year <= year_to[1]}, 1)
              ELSE r1
        r3 == IF Truthy(genre)
              THEN SelectIdx(r2, {i \in 1..Len(r2) : lower_in(genre[1], r2[i].genre)}, 1)
              ELSE r2
        same == year_from = None /\ year_to = None /\ ~Truthy(genre)
    IN  Outcome(ms, <<>>, Ret("list", r3, 0, IF same THEN "alias" ELSE ""))

sort_by_duration(ms, ascending) ==
    Outcome(ms, <<>>,
            Ret("list", sorted(ms, [i \in 1..Len(ms) |-> ms[i].duration], ~ascending), 0, ""))

sort_by_rating_desc(ms) ==
    Outcome(ms, <<>>,
            Ret("list", sorted(ms, [i \in 1..Len(ms) |-> ms[i].rating], TRUE), 0, ""))

\* total_duration / len(self.movies) as <<total_duration, len>>; 0.0 is <<0, 1>>
calculate_average_duration(ms) ==
    IF ms = <<>>
    THEN Outcome(ms, <<>>, Ret("float", <<0, 1>>, 0, ""))
    ELSE Outcome(ms, <<>>,
                 Ret("float", <<sum([i \in 1..Len(ms) |-> ms[i].duration]), Len(ms)>>, 0, ""))

\* sorted_movies[:3]
get_top_3_by_rating(ms) ==
    LET sorted_movies == sort_by_rating_desc(ms).ret.list
    IN  Outcome(ms, <<>>,
                Ret("list", SubSeq(sorted_movies, 1, IF Len(sorted_movies) < 3
                                                     THEN Len(sorted_movies) ELSE 3), 0, ""))

get_movies_by_genre(ms, genre) ==
    Outcome(ms, <<>>,
            Ret("list", SelectIdx(ms, {i \in 1..Len(ms) : lower_in(genre, ms[i].genre)}, 1),
                0, ""))

\* the dict of statistics as the one element of the list; {} is the empty list
get_statistics(ms) ==
    IF ms = <<>>
    THEN Outcome(ms, <<>>, Ret("dict", <<>>, 0, ""))
    ELSE LET years == [i \in 1..Len(ms) |-> ms[i].year]
             stats ==
                 [total_movies |-> Len(ms),
                  average_rating |-> <<sum([i \in 1..Len(ms) |-> ms[i].rating]), Len(ms)>>,
                  average_duration |-> calculate_average_duration(ms).ret.list,
                  total_value |-> sum([i \in 1..Len(ms) |-> ms[i].price]),
                  oldest_year |-> years[min(years)],
                  newest_year |-> years[max(years)],
                  epic_count |-> Cardinality({i \in 1..Len(ms) : ms[i].is_epic}),
                  genres |-> Cardinality({ms[i].genre : i \in 1..Len(ms)})]
         IN  Outcome(ms, <<>>, Ret("dict", <<stats>>, 0, ""))

----------------------------------------------------------------------------
(* 5.py: Condition, SportsEquipment and InventoryManager *)

\* the members of the enumeration, in definition order
Condition == <<"NEW", "GOOD", "WORN", "NEEDS_REPAIR">>

Condition_value(c) ==
    CASE c = "NEW" -> "novyj"
      [] c = "GOOD" -> "horoshij"
      [] c = "WORN" -> "iznoshennyj"
      [] c = "NEEDS_REPAIR" -> "trebuet remonta"

SportsEquipment(id, name, sport_type, weight, price, quantity, condition) ==
    [id |-> id, name |-> name, sport_type |-> sport_type, weight |-> weight,
     price |-> price, quantity |-> quantity, condition |-> condition]

\* to_dict that writes the name of the Condition member for its value
SportsEquipment_to_dict_name(e) ==
    [id |-> e.id, name |-> e.name, sport_type |-> e.sport_type, weight |-> e.weight,
     price |-> e.price, quantity |-> e.quantity, condition |-> e.condition]

SportsEquipment_to_dict(e) ==
    [id |-> e.id, name |-> e.name, sport_type |-> e.sport_type, weight |-> e.weight,
     price |-> e.price, quantity |-> e.quantity, condition |-> Condition_value(e.condition)]

SportsEquipment_required ==
    {"id", "name", "sport_type", "weight", "price", "quantity", "condition"}

SportsEquipment_from_dict_raises(data) == ~(SportsEquipment_required \subseteq DOMAIN data)

\* next((c for c in Condition if c.value == condition_value), Condition.GOOD)
Condition_from_value(condition_value) ==
    IF \E i \in 1..Len(Condition) : Condition_value(Condition[i]) = condition_value
    THEN Condition[CHOOSE i \in 1..Len(Condition) :
                       /\ Condition_value(Condition[i]) = condition_value
                       /\ \A j \in 1..(i - 1) : Condition_value(Condition[j]) # condition_value]
    ELSE "GOOD"

SportsEquipment_from_dict(data) ==
    [id |-> data.id, name |-> data.name, sport_type |-> data.sport_type,
     weight |-> data.weight, price |-> data.price, quantity |-> data.quantity,
     condition |-> Condition_from_value(data.condition)]

InventoryManager_save_data(its) ==
    json_dump([i \in 1..Len(its) |-> SportsEquipment_to_dict(its[i])])

sample_items ==
    << SportsEquipment(1, "Futbolnyj myach", "futbol", 45, 2500, 50, "GOOD"),
       SportsEquipment(2, "Basketbolnyj myach", "basketbol", 62, 3200, 30, "NEW"),
       SportsEquipment(3, "Tennisnaya raketka", "tennis", 30, 8500, 15, "NEW"),
       SportsEquipment(4, "Gantel 5 kg", "fitnes", 500, 1200, 25, "GOOD"),
       SportsEquipment(5, "Gantel 10 kg", "fitnes", 1000, 2200, 20, "WORN"),
       SportsEquipment(6, "Shtanga", "tyazhelaya atletika", 2000, 15000, 5, "GOOD"),
       SportsEquipment(7, "Bokserskie perchatki", "boks", 50, 4500, 12, "NEW"),
       SportsEquipment(8, "Skakalka", "fitnes", 20, 800, 40, "GOOD"),
       SportsEquipment(9, "Velosiped", "velosport", 1200, 35000, 3, "NEW"),
       SportsEquipment(10, "Lyzhi", "lyzhnyj sport", 250, 18000, 8, "NEEDS_REPAIR") >>

InventoryManager_init_sample_data ==
    Outcome(sample_items, <<sample_items>>, Ret("None", <<>>, 0, "seeded"))

InventoryManager_load_data(doc) ==
    IF doc.exists
    THEN IF doc.parses /\ \A i \in 1..Len(doc.data) : ~SportsEquipment_from_dict_raises(doc.data[i])
         THEN Outcome([i \in 1..Len(doc.data) |-> SportsEquipment_from_dict(doc.data[i])],
                      <<>>, Ret("None", <<>>, 0, "loaded"))
         ELSE [InventoryManager_init_sample_data EXCEPT !.ret.msg = "load_error"]
    ELSE InventoryManager_init_sample_data

\* write_off with save_data called before the quantity is lowered
write_off_stale_save(its, item_id, quantity) ==
    LET k == FirstWithId(its, item_id)
    IN  IF k = 0
        THEN Outcome(its, <<>>, Ret("False", <<>>, 0, "not_found"))
        ELSE IF quantity <= 0
        THEN Outcome(its, <<>>, Ret("False", <<>>, 0, "not_positive"))
        ELSE IF its[k].quantity < quantity
        THEN Outcome(its, <<>>, Ret("False", <<>>, 0, "insufficient"))
        ELSE LET new == [its EXCEPT ![k].quantity = @ - quantity]
             IN  Outcome(new, <<its>>,
                         Ret("True", <<>>, 0,
                             IF new[k].quantity = 0 THEN "written_off_now_zero"
                                                    ELSE "written_off"))

\* write_off without the stock check
write_off_unchecked_stock(its, item_id, quantity) ==
    LET k == FirstWithId(its, item_id)
    IN  IF k = 0
        THEN Outcome(its, <<>>, Ret("False", <<>>, 0, "not_found"))
        ELSE IF quantity <= 0
        THEN Outcome(its, <<>>, Ret("False", <<>>, 0, "not_positive"))
        ELSE LET new == [its EXCEPT ![k].quantity = @ - quantity]
             IN  Outcome(new, <<new>>,
                         Ret("True", <<>>, 0,
                             IF new[k].quantity = 0 THEN "written_off_now_zero"
                                                    ELSE "written_off"))

\* write_off that removes the record when its quantity reaches 0
write_off_removes_at_zero(its, item_id, quantity) ==
    LET k == FirstWithId(its, item_id)
    IN  IF k = 0
        THEN Outcome(its, <<>>, Ret("False", <<>>, 0, "not_found"))
        ELSE IF quantity <= 0
        THEN Outcome(its, <<>>, Ret("False", <<>>, 0, "not_positive"))
        ELSE IF its[k].quantity < quantity
        THEN Outcome(its, <<>>, Ret("False", <<>>, 0, "insufficient"))
        ELSE LET lowered == [its EXCEPT ![k].quantity = @ - quantity]
                 new == IF lowered[k].quantity = 0 THEN Pop(lowered, k - 1) ELSE lowered
             IN  Outcome(new, <<new>>,
                         Ret("True", <<>>, 0,
                             IF lowered[k].quantity = 0 THEN "written_off_now_zero"
                                                        ELSE "written_off"))

write_off(its, item_id, quantity) ==
    LET k == FirstWithId(its, item_id)
    IN  IF k = 0
        THEN Outcome(its, <<>>, Ret("False", <<>>, 0, "not_found"))
        ELSE IF quantity <= 0
        THEN Outcome(its, <<>>, Ret("False", <<>>, 0, "not_positive"))
        ELSE IF its[k].quantity < quantity
        THEN Outcome(its, <<>>, Ret("False", <<>>, 0, "insufficient"))
        ELSE LET new == [its EXCEPT ![k].quantity = @ - quantity]
             IN  Outcome(new, <<new>>,
                         Ret("True", <<>>, 0,
                             IF new[k].quantity = 0 THEN "written_off_now_zero"
                                                    ELSE "written_off"))

\* mark_for_repair saving inside the loop, once per marked record
mark_for_repair_save_in_loop(its) ==
    LET hit == {i \in 1..Len(its) :
                   its[i].condition # "NEW" /\ its[i].condition # "NEEDS_REPAIR"}
        new == [i \in 1..Len(its) |->
                   IF i \in hit THEN [its[i] EXCEPT !.condition = "NEEDS_REPAIR"] ELSE its[i]]
        marked_items == SelectIdx(new, hit, 1)
    IN  Outcome(new, [k \in 1..Len(marked_items) |-> new],
                Ret("list", marked_items, 0,
                    IF marked_items # <<>> THEN "marked" ELSE "none_to_mark"))

\* mark_for_repair that skips only the records already awaiting repair
mark_for_repair_marks_new(its) ==
    LET hit == {i \in 1..Len(its) : its[i].condition # "NEEDS_REPAIR"}
        new == [i \in 1..Len(its) |->
                   IF i \in hit THEN [its[i] EXCEPT !.condition = "NEEDS_REPAIR"] ELSE its[i]]
        marked_items == SelectIdx(new, hit, 1)
    IN  IF marked_items # <<>>
        THEN Outcome(new, <<new>>, Ret("list", marked_items, 0, "marked"))
        ELSE Outcome(new, <<>>, Ret("list", marked_items, 0, "none_to_mark"))

\* mark_for_repair that skips the NEW records only: the records already
\* awaiting repair are listed and saved again
mark_for_repair_relists(its) ==
    LET hit == {i \in 1..Len(its) : its[i].condition # "NEW"}
        new == [i \in 1..Len(its) |->
                   IF i \in hit THEN [its[i] EXCEPT !.condition = "NEEDS_REPAIR"] ELSE its[i]]
        marked_items == SelectIdx(new, hit, 1)
    IN  IF marked_items # <<>>
        THEN Outcome(new, <<new>>, Ret("list", marked_items, 0, "marked"))
        ELSE Outcome(new, <<>>, Ret("list", marked_items, 0, "none_to_mark"))

mark_for_repair(its) ==
    LET hit == {i \in 1..Len(its) :
                   its[i].condition # "NEW" /\ its[i].condition # "NEEDS_REPAIR"}
        new == [i \in 1..Len(its) |->
                   IF i \in hit THEN [its[i] EXCEPT !.condition = "NEEDS_REPAIR"] ELSE its[i]]
        marked_items == SelectIdx(new, hit, 1)
    IN  IF marked_items # <<>>
        THEN Outcome(new, <<new>>, Ret("list", marked_items, 0, "marked"))
        ELSE Outcome(new, <<>>, Ret("list", marked_items, 0, "none_to_mark"))

delete_zero_quantity(its) ==
    LET new == SelectIdx(its, {i \in 1..Len(its) : its[i].quantity > 0}, 1)
        deleted_count == Len(its) - Len(new)
    IN  IF deleted_count > 0
        THEN Outcome(new, <<new>>, Ret("int", <<>>, deleted_count, "deleted"))
        ELSE Outcome(new, <<>>, Ret("int", <<>>, deleted_count, "none_zero"))

search_by_sport_and_weight(its, sport_type, min_weight, max_weight) ==
    LET r1 == IF Truthy(sport_type)
              THEN SelectIdx(its, {i \in 1..Len(its) :
                                     lower_in(sport_type[1], its[i].sport_type)}, 1)
              ELSE its
        r2 == IF min_weight # None
              THEN SelectIdx(r1, {i \in 1..Len(r1) : r1[i].weight >= min_weight[1]}, 1)
              ELSE r1
        r3 == IF max_weight # None
              THEN SelectIdx(r2, {i \in 1..Len(r2) : r2[i].weight <= max_weight[1]}, 1)
              ELSE r2
        same == ~Truthy(sport_type) /\ min_weight = None /\ max_weight = None
    IN  Outcome(its, <<>>, Ret("list", r3, 0, IF same THEN "alias" ELSE ""))

InventoryManager_sort_by_price(its, ascending) ==
    Outcome(its, <<>>,
            Ret("list", sorted(its, [i \in 1..Len(its) |-> its[i].price], ~ascending), 0, ""))

sort_by_quantity_desc(its) ==
    Outcome(its, <<>>,
            Ret("list", sorted(its, [i \in 1..Len(its) |-> its[i].quantity], TRUE), 0, ""))

\* item.total_value() is price * quantity
calculate_total_warehouse_value(its) ==
    Outcome(its, <<>>,
            Ret("float", <<>>, sum([i \in 1..Len(its) |-> its[i].price * its[i].quantity]), ""))

get_new_items(its) ==
    Outcome(its, <<>>,
            Ret("list", SelectIdx(its, {i \in 1..Len(its) : its[i].condition = "NEW"}, 1), 0, ""))

\* Optional[SportsEquipment]
get_heaviest_item(its) ==
    IF its = <<>>
    THEN Outcome(its, <<>>, Ret("Optional", None, 0, ""))
    ELSE Outcome(its, <<>>,
                 Ret("Optional", Some(its[max([i \in 1..Len(its) |-> its[i].weight])]), 0, ""))

----------------------------------------------------------------------------
(* Inputs: the backing documents a run may start from and the arguments    *)
(* the menu may pass.                                                      *)

Managers == {"ComputerManager", "MovieManager", "InventoryManager"}

\* a JSON object without one of its keys
Without(d, key) == [k \in (DOMAIN d) \ {key} |-> d[k]]

\* a well-formed document written by another run or by hand: two objects
\* share id 1, the first has no is_on_sale key
ComputerDocLoaded ==
    json_dump(<< Without(GamingComputer_to_dict(
                     GamingComputer(1, "Old Box", "Intel i5-9400", 8, 256, "NVIDIA GTX 1050", 40000)),
                     "is_on_sale"),
                 [GamingComputer_to_dict(
                     GamingComputer(1, "Twin Box", "Intel i5-9400", 16, 512, "NVIDIA GTX 1060", 45000))
                  EXCEPT !.is_on_sale = TRUE],
                 GamingComputer_to_dict(
                     GamingComputer(2, "Third Box", "AMD Ryzen 3 3100", 4, 128, "AMD RX 550", 30000)) >>)

\* valid JSON whose second object lacks the price key
ComputerDocBadRecord ==
    json_dump(<< GamingComputer_to_dict(sample_computers[1]),
                 Without(GamingComputer_to_dict(sample_computers[2]), "price") >>)

ComputerDocuments == {AbsentDocument, GarbageDocument, ComputerDocBadRecord, ComputerDocLoaded}

\* the first object has no is_epic key although its duration exceeds 150
MovieDocLoaded ==
    json_dump(<< Without(Movie_to_dict(Movie(1, "Ben-Gur", 1959, "drama", 212, 81, 250)), "is_epic"),
                 Movie_to_dict(Movie(2, "Brat", 1997, "kriminal", 100, 83, 200)),
                 Movie_to_dict(Movie(3, "Dyuna", 2021, "fantastika", 155, 80, 450)) >>)

MovieDocBadRecord ==
    json_dump(<< Movie_to_dict(sample_movies[1]),
                 Without(Movie_to_dict(sample_movies[2]), "price") >>)

MovieDocuments == {AbsentDocument, GarbageDocument, MovieDocBadRecord, MovieDocLoaded}

\* the second object carries a condition string that is no Condition value,
\* the third has quantity 0
InventoryDocLoaded ==
    json_dump(<< SportsEquipment_to_dict(SportsEquipment(6, "Girya", "fitnes", 1600, 3000, 5, "WORN")),
                 [SportsEquipment_to_dict(SportsEquipment(9, "Kanat", "krossfit", 800, 4000, 3, "NEW"))
                  EXCEPT !.condition = "slomannyj"],
                 SportsEquipment_to_dict(SportsEquipment(12, "Obruch", "gimnastika", 30, 500, 0, "NEW")) >>)

InventoryDocBadRecord ==
    json_dump(<< SportsEquipment_to_dict(sample_items[1]),
                 Without(SportsEquipment_to_dict(sample_items[2]), "quantity") >>)

InventoryDocuments == {AbsentDocument, GarbageDocument, InventoryDocBadRecord, InventoryDocLoaded}

Documents(m) ==
    CASE m = "ComputerManager" -> ComputerDocuments
      [] m = "MovieManager" -> MovieDocuments
      [] m = "InventoryManager" -> InventoryDocuments

\* menu choice 4 of 1.py: the computer built from the typed fields
NewComputer(id) == GamingComputer(id, "Custom", "Intel i3-12100", 8, 256, "NVIDIA GTX 1650", 100)
NewIds == {0, 2, 6}
ComputerIds == {0, 1, 2, 6, 7}
RamDeltas == {-40, 8}
YearThresholds == {1960, 2000}
Percents == {0, 20}
DurationThresholds == {120, 150}
ItemIds == {6, 9, 10, 11}
Quantities == {-1, 0, 3, 5, 10}

\* criteria of the searches; 0 is a supplied criterion, None is not
MinRams == {None, Some(0), Some(16)}
MaxPrices == {None, Some(100000)}
MinSsds == {None, Some(512)}
GraphicsTerms == {None, Some("rtx")}
GraphicsModels == {"rtx", "GTX 10"}
YearFroms == {None, Some(1994)}
YearTos == {None, Some(1999)}
GenreTerms == {None, Some("Dram")}
Genres == {"Dram"}
SportTerms == {None, Some("BOL")}
MinWeights == {None, Some(50)}
MaxWeights == {None, Some(1000)}

----------------------------------------------------------------------------
(* The state machine *)

Init ==
    /\ manager \in Managers
    /\ document \in Documents(manager)
    /\ pc = "start"
    /\ origin = "none"
    /\ computers = <<>>
    /\ movies = <<>>
    /\ items = <<>>
    /\ writes = 0
    /\ op = NoCall
    /\ returned = NoRet
    /\ args = <<>>
    /\ results = NoResults
    /\ discounted = {}

Origin(msg) ==
    CASE msg = "seeded" -> "seed"
      [] msg = "loaded" -> "loaded"
      [] msg = "load_error" -> "failed"

\* ComputerManager.__init__
ComputerManagerInit ==
    /\ pc = "start" /\ manager = "ComputerManager"
    /\ LET out == ComputerManager_load_data(document)
       IN  /\ computers' = out.coll
           /\ document' = AfterSaves(document,
                  [i \in 1..Len(out.saves) |-> ComputerManager_save_data(out.saves[i])])
           /\ writes' = writes + Len(out.saves)
           /\ origin' = Origin(out.ret.msg)
           /\ returned' = out.ret
    /\ op' = Call("__init__", 0, 0)
    /\ pc' = "menu"
    /\ UNCHANGED <<manager, movies, items, args, results, discounted>>

\* MovieManager.__init__
MovieManagerInit ==
    /\ pc = "start" /\ manager = "MovieManager"
    /\ LET out == MovieManager_load_data(document)
       IN  /\ movies' = out.coll
           /\ document' = AfterSaves(document,
                  [i \in 1..Len(out.saves) |-> MovieManager_save_data(out.saves[i])])
           /\ writes' = writes + Len(out.saves)
           /\ origin' = Origin(out.ret.msg)
           /\ returned' = out.ret
    /\ op' = Call("__init__", 0, 0)
    /\ pc' = "menu"
    /\ UNCHANGED <<manager, computers, items, args, results, discounted>>

\* InventoryManager.__init__
InventoryManagerInit ==
    /\ pc = "start" /\ manager = "InventoryManager"
    /\ LET out == InventoryManager_load_data(document)
       IN  /\ items' = out.coll
           /\ document' = AfterSaves(document,
                  [i \in 1..Len(out.saves) |-> InventoryManager_save_data(out.saves[i])])
           /\ writes' = writes + Len(out.saves)
           /\ origin' = Origin(out.ret.msg)
           /\ returned' = out.ret
    /\ op' = Call("__init__", 0, 0)
    /\ pc' = "menu"
    /\ UNCHANGED <<manager, computers, movies, args, results, discounted>>

\* one menu choice of 1.py that calls a ComputerManager method
ComputerCall(call, a, out) ==
    /\ pc = "menu" /\ manager = "ComputerManager"
    /\ writes < MaxWrites
    /\ computers' = out.coll
    /\ document' = AfterSaves(document,
           [i \in 1..Len(out.saves) |-> ComputerManager_save_data(out.saves[i])])
    /\ writes' = writes + Len(out.saves)
    /\ op' = call
    /\ returned' = out.ret
    /\ args' = a
    /\ results' = IF call.name \in Assigning
                  THEN [list |-> out.ret.list, same |-> out.ret.msg = "alias"]
                  ELSE Aliased(results, call.name, computers, out.coll)
    /\ discounted' = IF call.name = "mark_as_sale" /\ out.ret.msg = "marked"
                     THEN discounted \cup {call.id} ELSE discounted
    /\ UNCHANGED <<manager, pc, origin, movies, items>>

ComputerStep(call, out) == ComputerCall(call, <<>>, out)

\* one menu choice of 4.py that calls a MovieManager method
MovieCall(call, a, out) ==
    /\ pc = "menu" /\ manager = "MovieManager"
    /\ writes < MaxWrites
    /\ movies' = out.coll
    /\ document' = AfterSaves(document,
           [i \in 1..Len(out.saves) |-> MovieManager_save_data(out.saves[i])])
    /\ writes' = writes + Len(out.saves)
    /\ op' = call
    /\ returned' = out.ret
    /\ args' = a
    /\ results' = IF call.name \in Assigning
                  THEN [list |-> out.ret.list, same |-> out.ret.msg = "alias"]
                  ELSE Aliased(results, call.name, movies, out.coll)
    /\ UNCHANGED <<manager, pc, origin, computers, items, discounted>>

MovieStep(call, out) == MovieCall(call, <<>>, out)

\* one menu choice of 5.py that calls an InventoryManager method
InventoryCall(call, a, out) ==
    /\ pc = "menu" /\ manager = "InventoryManager"
    /\ writes < MaxWrites
    /\ items' = out.coll
    /\ document' = AfterSaves(document,
           [i \in 1..Len(out.saves) |-> InventoryManager_save_data(out.saves[i])])
    /\ writes' = writes + Len(out.saves)
    /\ op' = call
    /\ returned' = out.ret
    /\ args' = a
    /\ results' = IF call.name \in Assigning
                  THEN [list |-> out.ret.list, same |-> out.ret.msg = "alias"]
                  ELSE Aliased(results, call.name, items, out.coll)
    /\ UNCHANGED <<manager, pc, origin, computers, movies, discounted>>

InventoryStep(call, out) == InventoryCall(call, <<>>, out)

AddComputer ==
    \E id \in NewIds :
        ComputerStep(Call("add_computer", id, 0), add_computer(computers, NewComputer(id)))

DeleteById ==
    \E id \in ComputerIds :
        ComputerStep(Call("delete_by_id", id, 0), delete_by_id(computers, id))

DeleteByIndex ==
    \E index \in -1..Len(computers) :
        ComputerStep(Call("delete_by_index", 0, index), delete_by_index(computers, index))

UpgradeRam ==
    \E id \in ComputerIds, additional \in RamDeltas :
        ComputerStep(Call("upgrade_ram", id, additional), upgrade_ram(computers, id, additional))

MarkAsSale ==
    \E id \in ComputerIds :
        ComputerStep(Call("mark_as_sale", id, 0), mark_as_sale(computers, id))

IncreasePriceForOldMovies ==
    \E year_threshold \in YearThresholds, increase_percent \in Percents :
        MovieStep(Call("increase_price_for_old_movies", year_threshold, increase_percent),
                  increase_price_for_old_movies(movies, year_threshold, increase_percent))

MarkEpicMovies ==
    \E duration_threshold \in DurationThresholds :
        MovieStep(Call("mark_epic_movies", 0, duration_threshold),
                  mark_epic_movies(movies, duration_threshold))

WriteOff ==
    \E item_id \in ItemIds, quantity \in Quantities :
        InventoryStep(Call("write_off", item_id, quantity), write_off(items, item_id, quantity))

MarkForRepair ==
    InventoryStep(Call("mark_for_repair", 0, 0), mark_for_repair(items))

DeleteZeroQuantity ==
    InventoryStep(Call("delete_zero_quantity", 0, 0), delete_zero_quantity(items))

SearchByCriteria ==
    \E min_ram \in MinRams, max_price \in MaxPrices, min_ssd \in MinSsds,
       graphics_required \in GraphicsTerms :
        ComputerCall(Call("search_by_criteria", 0, 0),
                     [min_ram |-> min_ram, max_price |-> max_price, min_ssd |-> min_ssd,
                      graphics_required |-> graphics_required],
                     search_by_criteria(computers, min_ram, max_price, min_ssd,
                                        graphics_required))

ComputerSortByPrice ==
    \E ascending \in BOOLEAN :
        ComputerCall(Call("sort_by_price", 0, 0), [ascending |-> ascending],
                     ComputerManager_sort_by_price(computers, ascending))

SortByRamSsdSum ==
    \E ascending \in BOOLEAN :
        ComputerCall(Call("sort_by_ram_ssd_sum", 0, 0), [ascending |-> ascending],
                     sort_by_ram_ssd_sum(computers, ascending))

GetPriceExtremes ==
    ComputerStep(Call("get_price_extremes", 0, 0), get_price_extremes(computers))

FilterByGraphics ==
    \E min_graphics \in GraphicsModels :
        ComputerCall(Call("filter_by_graphics", 0, 0), [min_graphics |-> min_graphics],
                     filter_by_graphics(computers, min_graphics))

SearchByYearRangeAndGenre ==
    \E year_from \in YearFroms, year_to \in YearTos, genre \in GenreTerms :
        MovieCall(Call("search_by_year_range_and_genre", 0, 0),
                  [year_from |-> year_from, year_to |-> year_to, genre |-> genre],
                  search_by_year_range_and_genre(movies, year_from, year_to, genre))

SortByDuration ==
    \E ascending \in BOOLEAN :
        MovieCall(Call("sort_by_duration", 0, 0), [ascending |-> ascending],
                  sort_by_duration(movies, ascending))

SortByRatingDesc ==
    MovieStep(Call("sort_by_rating_desc", 0, 0), sort_by_rating_desc(movies))

CalculateAverageDuration ==
    MovieStep(Call("calculate_average_duration", 0, 0), calculate_average_duration(movies))

GetTop3ByRating ==
    MovieStep(Call("get_top_3_by_rating", 0, 0), get_top_3_by_rating(movies))

GetMoviesByGenre ==
    \E genre \in Genres :
        MovieCall(Call("get_movies_by_genre", 0, 0), [genre |-> genre],
                  get_movies_by_genre(movies, genre))

GetStatistics ==
    MovieStep(Call("get_statistics", 0, 0), get_statistics(movies))

SearchBySportAndWeight ==
    \E sport_type \in SportTerms, min_weight \in MinWeights, max_weight \in MaxWeights :
        InventoryCall(Call("search_by_sport_and_weight", 0, 0),
                      [sport_type |-> sport_type, min_weight |-> min_weight,
                       max_weight |-> max_weight],
                      search_by_sport_and_weight(items, sport_type, min_weight, max_weight))

InventorySortByPrice ==
    \E ascending \in BOOLEAN :
        InventoryCall(Call("sort_by_price", 0, 0), [ascending |-> ascending],
                      InventoryManager_sort_by_price(items, ascending))

SortByQuantityDesc ==
    InventoryStep(Call("sort_by_quantity_desc", 0, 0), sort_by_quantity_desc(items))

CalculateTotalWarehouseValue ==
    InventoryStep(Call("calculate_total_warehouse_value", 0, 0),
                  calculate_total_warehouse_value(items))

GetNewItems ==
    InventoryStep(Call("get_new_items", 0, 0), get_new_items(items))

GetHeaviestItem ==
    InventoryStep(Call("get_heaviest_item", 0, 0), get_heaviest_item(items))

\* menu choice 0 that only leaves the loop
Exit_without_save ==
    /\ pc = "menu"
    /\ op' = Call("exit", 0, 0)
    /\ returned' = NoRet
    /\ pc' = "done"
    /\ UNCHANGED <<manager, origin, computers, movies, items, document, writes,
                   args, results, discounted>>

\* menu choice 0: manager.save_data() and break
Exit ==
    /\ pc = "menu"
    /\ document' = CASE manager = "ComputerManager" -> ComputerManager_save_data(computers)
                     [] manager = "MovieManager" -> MovieManager_save_data(movies)
                     [] manager = "InventoryManager" -> InventoryManager_save_data(items)
    /\ writes' = writes + 1
    /\ op' = Call("exit", 0, 0)
    /\ returned' = NoRet
    /\ pc' = "done"
    /\ UNCHANGED <<manager, origin, computers, movies, items, args, results, discounted>>

Next ==
    \/ ComputerManagerInit
    \/ MovieManagerInit
    \/ InventoryManagerInit
    \/ AddComputer
    \/ DeleteById
    \/ DeleteByIndex
    \/ UpgradeRam
    \/ MarkAsSale
    \/ IncreasePriceForOldMovies
    \/ MarkEpicMovies
    \/ WriteOff
    \/ MarkForRepair
    \/ DeleteZeroQuantity
    \/ Exit

Spec == Init /\ [][Next]_vars

\* the ways save_data can fail on the document store: open(filename, 'w')
\* raises and the file is as it was, or the file is opened, and so emptied,
\* and json.dump raises before the text is complete
Failures == {"open", "dump"}

StoreFailure(doc, how) == IF how = "open" THEN doc ELSE GarbageDocument

\* nothing in the managers or in main catches OSError
Raised == Ret("OSError", <<>>, 0, "")

\* a call that puts the collection back as it was when its save_data fails
ComputerFails_rolled_back(call, out, how) ==
    /\ pc = "menu" /\ manager = "ComputerManager"
    /\ writes < MaxWrites
    /\ out.saves # <<>>
    /\ computers' = computers
    /\ document' = StoreFailure(document, how)
    /\ writes' = writes + 1
    /\ op' = call
    /\ returned' = Raised
    /\ args' = <<>>
    /\ results' = results
    /\ discounted' = discounted
    /\ pc' = "crashed"
    /\ UNCHANGED <<manager, origin, movies, items>>

\* a call in which a save that swallowed the failure let the method go on
\* to its end
ComputerFails_swallowed(call, out, how) ==
    /\ pc = "menu" /\ manager = "ComputerManager"
    /\ writes < MaxWrites
    /\ out.saves # <<>>
    /\ computers' = out.coll
    /\ document' = StoreFailure(document, how)
    /\ writes' = writes + 1
    /\ op' = call
    /\ returned' = out.ret
    /\ args' = <<>>
    /\ results' = Aliased(results, call.name, computers, out.coll)
    /\ discounted' = discounted
    /\ UNCHANGED <<manager, pc, origin, movies, items>>

\* a ComputerManager call whose first save_data fails: the collection is
\* what the method had made of it when it called save_data, the exception
\* leaves the method and main, and the script ends
ComputerFails(call, out, how) ==
    /\ pc = "menu" /\ manager = "ComputerManager"
    /\ writes < MaxWrites
    /\ out.saves # <<>>
    /\ computers' = out.saves[1]
    /\ document' = StoreFailure(document, how)
    /\ writes' = writes + 1
    /\ op' = call
    /\ returned' = Raised
    /\ args' = <<>>
    /\ results' = Aliased(results, call.name, computers, out.saves[1])
    /\ discounted' = IF call.name = "mark_as_sale"
                     THEN discounted \cup {call.id} ELSE discounted
    /\ pc' = "crashed"
    /\ UNCHANGED <<manager, origin, movies, items>>

MovieFails(call, out, how) ==
    /\ pc = "menu" /\ manager = "MovieManager"
    /\ writes < MaxWrites
    /\ out.saves # <<>>
    /\ movies' = out.saves[1]
    /\ document' = StoreFailure(document, how)
    /\ writes' = writes + 1
    /\ op' = call
    /\ returned' = Raised
    /\ args' = <<>>
    /\ results' = Aliased(results, call.name, movies, out.saves[1])
    /\ pc' = "crashed"
    /\ UNCHANGED <<manager, origin, computers, items, discounted>>

InventoryFails(call, out, how) ==
    /\ pc = "menu" /\ manager = "InventoryManager"
    /\ writes < MaxWrites
    /\ out.saves # <<>>
    /\ items' = out.saves[1]
    /\ document' = StoreFailure(document, how)
    /\ writes' = writes + 1
    /\ op' = call
    /\ returned' = Raised
    /\ args' = <<>>
    /\ results' = Aliased(results, call.name, items, out.saves[1])
    /\ pc' = "crashed"
    /\ UNCHANGED <<manager, origin, computers, movies, discounted>>

AddComputerFails ==
    \E id \in NewIds, how \in Failures :
        ComputerFails(Call("add_computer", id, 0), add_computer(computers, NewComputer(id)), how)

DeleteByIdFails ==
    \E id \in ComputerIds, how \in Failures :
        ComputerFails(Call("delete_by_id", id, 0), delete_by_id(computers, id), how)

DeleteByIndexFails ==
    \E index \in -1..Len(computers), how \in Failures :
        ComputerFails(Call("delete_by_index", 0, index), delete_by_index(computers, index), how)

UpgradeRamFails ==
    \E id \in ComputerIds, additional \in RamDeltas, how \in Failures :
        ComputerFails(Call("upgrade_ram", id, additional),
                      upgrade_ram(computers, id, additional), how)

MarkAsSaleFails ==
    \E id \in ComputerIds, how \in Failures :
        ComputerFails(Call("mark_as_sale", id, 0), mark_as_sale(computers, id), how)

IncreasePriceForOldMoviesFails ==
    \E year_threshold \in YearThresholds, increase_percent \in Percents, how \in Failures :
        MovieFails(Call("increase_price_for_old_movies", year_threshold, increase_percent),
                   increase_price_for_old_movies(movies, year_threshold, increase_percent), how)

MarkEpicMoviesFails ==
    \E duration_threshold \in DurationThresholds, how \in Failures :
        MovieFails(Call("mark_epic_movies", 0, duration_threshold),
                   mark_epic_movies(movies, duration_threshold), how)

WriteOffFails ==
    \E item_id \in ItemIds, quantity \in Quantities, how \in Failures :
        InventoryFails(Call("write_off", item_id, quantity),
                       write_off(items, item_id, quantity), how)

MarkForRepairFails ==
    \E how \in Failures :
        InventoryFails(Call("mark_for_repair", 0, 0), mark_for_repair(items), how)

DeleteZeroQuantityFails ==
    \E how \in Failures :
        InventoryFails(Call("delete_zero_quantity", 0, 0), delete_zero_quantity(items), how)

\* __init__ whose load_data seeds and whose save_data fails: the exception
\* leaves the constructor and main
InitFails ==
    /\ pc = "start"
    /\ \E how \in Failures :
          LET out == CASE manager = "ComputerManager" -> ComputerManager_load_data(document)
                       [] manager = "MovieManager" -> MovieManager_load_data(document)
                       [] manager = "InventoryManager" -> InventoryManager_load_data(document)
          IN  /\ out.saves # <<>>
              /\ computers' = IF manager = "ComputerManager" THEN out.saves[1] ELSE computers
              /\ movies' = IF manager = "MovieManager" THEN out.saves[1] ELSE movies
              /\ items' = IF manager = "InventoryManager" THEN out.saves[1] ELSE items
              /\ origin' = Origin(out.ret.msg)
              /\ document' = StoreFailure(document, how)
    /\ writes' = writes + 1
    /\ op' = Call("__init__", 0, 0)
    /\ returned' = Raised
    /\ pc' = "crashed"
    /\ UNCHANGED <<manager, args, results, discounted>>

\* menu choice 0 whose save_data fails
ExitFails ==
    /\ pc = "menu"
    /\ \E how \in Failures : document' = StoreFailure(document, how)
    /\ writes' = writes + 1
    /\ op' = Call("exit", 0, 0)
    /\ returned' = Raised
    /\ pc' = "crashed"
    /\ UNCHANGED <<manager, origin, computers, movies, items, args, results, discounted>>

SaveFails ==
    \/ AddComputerFails
    \/ DeleteByIdFails
    \/ DeleteByIndexFails
    \/ UpgradeRamFails
    \/ MarkAsSaleFails
    \/ IncreasePriceForOldMoviesFails
    \/ MarkEpicMoviesFails
    \/ WriteOffFails
    \/ MarkForRepairFails
    \/ DeleteZeroQuantityFails
    \/ InitFails
    \/ ExitFails

\* runs over a document store that may fail a save
NextF ==
    \/ Next
    \/ SaveFails

SpecF == Init /\ [][NextF]_vars

\* the menu choices that only read the collection
Query ==
    \/ SearchByCriteria
    \/ ComputerSortByPrice
    \/ SortByRamSsdSum
    \/ GetPriceExtremes
    \/ FilterByGraphics
    \/ SearchByYearRangeAndGenre
    \/ SortByDuration
    \/ SortByRatingDesc
    \/ CalculateAverageDuration
    \/ GetTop3ByRating
    \/ GetMoviesByGenre
    \/ GetStatistics
    \/ SearchBySportAndWeight
    \/ InventorySortByPrice
    \/ SortByQuantityDesc
    \/ CalculateTotalWarehouseValue
    \/ GetNewItems
    \/ GetHeaviestItem

\* runs with queries between the changes: as Spec, with the changes
\* explored up to QueryWrites document writes
NextQ ==
    \/ writes < QueryWrites /\ Next
    \/ Query

SpecQ == Init /\ [][NextQ]_vars

----------------------------------------------------------------------------
(* Properties *)

\* the collection of the running manager, and its serialization
Collection ==
    CASE manager = "ComputerManager" -> computers
      [] manager = "MovieManager" -> movies
      [] manager = "InventoryManager" -> items

Serialized ==
    CASE manager = "ComputerManager" -> ComputerManager_save_data(computers)
      [] manager = "MovieManager" -> MovieManager_save_data(movies)
      [] manager = "InventoryManager" -> InventoryManager_save_data(items)

HasId(s, id) == \E i \in 1..Len(s) : s[i].id = id

\* the step left memory, the file and the write count as they were
Untouched ==
    /\ computers' = computers
    /\ movies' = movies
    /\ items' = items
    /\ document' = document
    /\ writes' = writes

MutatingOps ==
    {"add_computer", "delete_by_id", "delete_by_index", "upgrade_ram", "mark_as_sale",
     "increase_price_for_old_movies", "mark_epic_movies",
     "write_off", "mark_for_repair", "delete_zero_quantity"}

\* what a mutating operation reports when it changed the collection
SuccessMsgs ==
    {"added", "deleted", "upgraded", "marked", "increased",
     "written_off", "written_off_now_zero"}

\* C1: right after a mutating operation of any of the three managers has
\* returned successfully, the persisted document is exactly the
\* serialization of the whole in-memory collection in its current order.
C1_SynchronizedAfterMutation ==
    (op.name \in MutatingOps /\ returned.msg \in SuccessMsgs) => document = Serialized

\* a successful write_off on a collection loaded from a document whose text
\* differed from the serialization of what was loaded
C1_Witness ==
    /\ manager = "InventoryManager" /\ origin = "loaded"
    /\ op.name = "write_off" /\ returned.kind = "True"
    /\ document # InventoryDocLoaded

\* C2: from the seed collection, after any sequence of ComputerManager
\* calls, successful or failed, no two records share an id.
C2_UniqueIdsFromSeed ==
    (manager = "ComputerManager" /\ origin = "seed") =>
        \A i, j \in 1..Len(computers) : i # j => computers[i].id # computers[j].id

\* a computer was added to the seeded collection after an add of a
\* duplicate could have been tried
C2_Witness ==
    /\ manager = "ComputerManager" /\ origin = "seed"
    /\ op.name = "add_computer" /\ returned.msg = "added"
    /\ Len(computers) = 6

\* C3: add_computer with an id some record already carries raises
\* ValueError, leaves the collection as it was and writes nothing.
C3_DuplicateRejected ==
    [][(pc = "menu" /\ op'.name = "add_computer" /\ HasId(computers, op'.id)) =>
          (returned'.kind = "ValueError" /\ Untouched)]_vars

C3_Witness ==
    /\ op.name = "add_computer" /\ returned.kind = "ValueError"
    /\ HasId(computers, op.id)

\* C4: add_computer with an id no record carries appends the record as the
\* last element, keeps every earlier element at its position and writes
\* the document exactly once, with the new collection.
C4_AppendsLast ==
    [][(pc = "menu" /\ op'.name = "add_computer" /\ ~HasId(computers, op'.id)) =>
          /\ Len(computers') = Len(computers) + 1
          /\ computers'[Len(computers')] = NewComputer(op'.id)
          /\ \A i \in 1..Len(computers) : computers'[i] = computers[i]
          /\ writes' = writes + 1
          /\ document' = ComputerManager_save_data(computers')]_vars

C4_Witness ==
    /\ op.name = "add_computer" /\ returned.msg = "added"
    /\ Len(computers) > 1
    /\ computers[Len(computers)] = NewComputer(op.id)

\* C5: delete_by_id with an id no record carries leaves the collection
\* unchanged and does not save: the write count stays the same.
C5_DeleteAbsentId ==
    [][(pc = "menu" /\ op'.name = "delete_by_id" /\ ~HasId(computers, op'.id)) =>
          (returned'.msg = "not_found" /\ Untouched)]_vars

C5_Witness ==
    /\ op.name = "delete_by_id" /\ returned.msg = "not_found"
    /\ computers # <<>> /\ writes > 0

\* C6: for every collection the ComputerManager can hold, seeded, loaded or
\* reached by operations, one delete_by_id or delete_by_index call shortens
\* the collection by at most one record.
C6_RemovesAtMostOne ==
    [][(pc = "menu" /\ op'.name \in {"delete_by_id", "delete_by_index"}) =>
          Len(computers') >= Len(computers) - 1]_vars

\* C7: delete_by_index(i) with i outside [0, len) reports the bad index,
\* removes nothing and does not save; with i inside it removes exactly the
\* record at position i and saves.
C7_DeleteByIndex ==
    [][(pc = "menu" /\ op'.name = "delete_by_index") =>
          IF op'.n < 0 \/ op'.n >= Len(computers)
          THEN returned'.msg = "bad_index" /\ Untouched
          ELSE /\ Len(computers') = Len(computers) - 1
               /\ \A i \in 1..Len(computers') :
                     computers'[i] = IF i <= op'.n THEN computers[i] ELSE computers[i + 1]
               /\ writes' = writes + 1
               /\ document' = ComputerManager_save_data(computers')]_vars

\* index -1 was refused on a collection that has a last element
C7_Witness ==
    /\ op.name = "delete_by_index" /\ op.n = -1
    /\ returned.msg = "bad_index" /\ computers # <<>>

\* C8: upgrade_ram, mark_as_sale and write_off addressed to an id no record
\* carries report not-found, leave every record unchanged and do not save.
C8_UpdateAbsentId ==
    [][(/\ pc = "menu"
        /\ \/ op'.name \in {"upgrade_ram", "mark_as_sale"} /\ ~HasId(computers, op'.id)
           \/ op'.name = "write_off" /\ ~HasId(items, op'.id)) =>
          (returned'.msg = "not_found" /\ Untouched)]_vars

C8_Witness ==
    /\ op.name = "upgrade_ram" /\ returned.msg = "not_found"
    /\ computers # <<>> /\ ~HasId(computers, op.id)

\* C9: upgrade_ram never drives ram negative: from the seed collection
\* ram >= 0 holds for every record in every reachable state.
C9_RamNeverNegative ==
    (manager = "ComputerManager" /\ origin = "seed") =>
        \A i \in 1..Len(computers) : computers[i].ram >= 0

\* C10: write_off on an existing record fails with memory and the document
\* unchanged when n exceeds the quantity or n <= 0, and otherwise lowers
\* that record's quantity by exactly n; from the seed, quantity >= 0 holds
\* for every record in every reachable state.
C10_WriteOffStep ==
    (pc = "menu" /\ op'.name = "write_off" /\ HasId(items, op'.id)) =>
        \E k \in 1..Len(items) :
            /\ items[k].id = op'.id
            /\ IF op'.n <= 0 \/ op'.n > items[k].quantity
               THEN returned'.kind = "False" /\ Untouched
               ELSE /\ returned'.kind = "True"
                    /\ items' = [items EXCEPT ![k].quantity = items[k].quantity - op'.n]
                    /\ document' = InventoryManager_save_data(items')

C10_WriteOff ==
    /\ [][C10_WriteOffStep]_vars
    /\ []((manager = "InventoryManager" /\ origin = "seed") =>
             \A i \in 1..Len(items) : items[i].quantity >= 0)

\* write_off(6, 10) was refused on the seeded barbell, quantity 5
C10_Witness ==
    /\ manager = "InventoryManager" /\ origin = "seed"
    /\ op = Call("write_off", 6, 10) /\ returned.msg = "insufficient"
    /\ \E k \in 1..Len(items) : items[k].id = 6 /\ items[k].quantity = 5

\* C11 as stated: once mark_as_sale has cut the price of a record with some
\* id, every later mark_as_sale on that id, while a record carries it,
\* changes nothing, reports already-on-sale and does not save.
C11_LaterMarkOnIdIsNoOp ==
    [][(/\ pc = "menu" /\ op'.name = "mark_as_sale"
        /\ op'.id \in discounted /\ HasId(computers, op'.id)) =>
          (returned'.msg = "already_on_sale" /\ Untouched)]_vars

\* what one mark_as_sale call does to the first record carrying the id
C11_MarkStep ==
    (pc = "menu" /\ op'.name = "mark_as_sale" /\ HasId(computers, op'.id)) =>
        LET k == FirstWithId(computers, op'.id)
        IN  IF computers[k].is_on_sale
            THEN returned'.msg = "already_on_sale" /\ Untouched
            ELSE /\ returned'.msg = "marked"
                 /\ computers' = [computers EXCEPT
                                     ![k].is_on_sale = TRUE,
                                     ![k].price = (computers[k].price * 9) \div 10]
                 /\ writes' = writes + 1
                 /\ document' = ComputerManager_save_data(computers')

\* no other call touches a price or a flag: every record it leaves behind
\* is a record that was there, or the one add_computer appended
C11_OthersKeepPrice ==
    (pc = "menu" /\ op'.name # "mark_as_sale") =>
        \A j \in 1..Len(computers') :
            \/ \E i \in 1..Len(computers) :
                   /\ computers'[j].id = computers[i].id
                   /\ computers'[j].model = computers[i].model
                   /\ computers'[j].price = computers[i].price
                   /\ computers'[j].is_on_sale = computers[i].is_on_sale
            \/ op'.name = "add_computer" /\ j = Len(computers') /\ ~computers'[j].is_on_sale

\* C11 (amended): mark_as_sale on a record whose flag is false sets the
\* flag, takes the price to nine tenths (100 to 90) and saves once; while
\* that record stays first with its id, a later mark_as_sale on the id
\* finds the flag set, changes nothing, reports already-on-sale and does
\* not save; no other call changes a price or clears a flag, so a record's
\* price is cut at most once.
C11_MarkAsSaleOnce ==
    /\ [][C11_MarkStep]_vars
    /\ [][C11_OthersKeepPrice]_vars

\* the second mark_as_sale on the added record: the price stayed at 90
C11_Witness ==
    /\ op.name = "mark_as_sale" /\ returned.msg = "already_on_sale"
    /\ op.id \in discounted
    /\ \E k \in 1..Len(computers) :
           computers[k] = [NewComputer(op.id) EXCEPT !.is_on_sale = TRUE, !.price = 90]

\* C12: increase_price_for_old_movies is a one-time operation: a second
\* call with the same arguments, right after the first, does not apply the
\* markup again, so every price stays what the first call made it.
C12_MarkupAppliedOnce ==
    [][(/\ pc = "menu"
        /\ op.name = "increase_price_for_old_movies" /\ op' = op) =>
          /\ Len(movies') = Len(movies)
          /\ \A i \in 1..Len(movies) : movies'[i].price = movies[i].price]_vars

BatchOps ==
    {"increase_price_for_old_movies", "mark_epic_movies", "mark_for_repair",
     "delete_zero_quantity"}

\* the step saved once, with the new collection, when some is TRUE and not
\* at all otherwise
C13_SavedOnceIf(some) ==
    IF some
    THEN writes' = writes + 1 /\ document' = Serialized'
    ELSE writes' = writes /\ document' = document

C13_IncreaseStep ==
    (pc = "menu" /\ op'.name = "increase_price_for_old_movies") =>
        LET hit == {i \in 1..Len(movies) : movies[i].year < op'.id}
        IN  /\ movies' = [i \in 1..Len(movies) |->
                             IF i \in hit
                             THEN [movies[i] EXCEPT
                                      !.price = (movies[i].price * (100 + op'.n)) \div 100]
                             ELSE movies[i]]
            /\ returned'.kind = "list"
            /\ returned'.list = SelectIdx(movies', hit, 1)
            /\ C13_SavedOnceIf(hit # {})

C13_MarkEpicStep ==
    (pc = "menu" /\ op'.name = "mark_epic_movies") =>
        LET hit == {i \in 1..Len(movies) : movies[i].duration > op'.n /\ ~movies[i].is_epic}
        IN  /\ movies' = [i \in 1..Len(movies) |->
                             IF i \in hit THEN [movies[i] EXCEPT !.is_epic = TRUE]
                             ELSE movies[i]]
            /\ returned'.kind = "list"
            /\ returned'.list = SelectIdx(movies', hit, 1)
            /\ C13_SavedOnceIf(hit # {})

C13_MarkForRepairStep ==
    (pc = "menu" /\ op'.name = "mark_for_repair") =>
        LET hit == {i \in 1..Len(items) : items[i].condition \in {"GOOD", "WORN"}}
        IN  /\ Len(items') = Len(items)
            /\ \A i \in 1..Len(items) : i \notin hit => items'[i] = items[i]
            /\ \A i \in hit : items'[i].condition = "NEEDS_REPAIR"
            /\ returned'.kind = "list"
            /\ returned'.list = SelectIdx(items', hit, 1)
            /\ C13_SavedOnceIf(hit # {})

C13_DeleteZeroStep ==
    (pc = "menu" /\ op'.name = "delete_zero_quantity") =>
        LET hit == {i \in 1..Len(items) : items[i].quantity <= 0}
        IN  /\ items' = SelectIdx(items, (1..Len(items)) \ hit, 1)
            /\ returned'.kind = "int"
            /\ returned'.num = Cardinality(hit)
            /\ C13_SavedOnceIf(hit # {})

C14_NewBecomesNeedsRepair ==
    [][(pc = "menu" /\ op'.name = "mark_for_repair") =>
          /\ Len(items') = Len(items)
          /\ \A i \in 1..Len(items) :
                /\ items[i].condition = "NEW" => items'[i].condition = "NEEDS_REPAIR"
                /\ items[i].condition = "NEEDS_REPAIR" => items'[i] = items[i]]_vars

\* C14 (amended): mark_for_repair takes GOOD and WORN to NEEDS_REPAIR and
\* nothing else: a NEW record stays NEW (new -> needs_repair is skipped)
\* and needs_repair -> needs_repair is a no-op.
C14_StatusTable ==
    [][(pc = "menu" /\ op'.name = "mark_for_repair") =>
          /\ Len(items') = Len(items)
          /\ \A i \in 1..Len(items) :
                items'[i] = [items[i] EXCEPT
                                !.condition = CASE @ = "NEW" -> "NEW"
                                                [] @ = "GOOD" -> "NEEDS_REPAIR"
                                                [] @ = "WORN" -> "NEEDS_REPAIR"
                                                [] @ = "NEEDS_REPAIR" -> "NEEDS_REPAIR"]]_vars

\* after a mark_for_repair that marked something, NEW records are still
\* there next to the records awaiting repair
C14_Witness ==
    /\ op.name = "mark_for_repair" /\ returned.msg = "marked"
    /\ \E i \in 1..Len(items) : items[i].condition = "NEW"
    /\ \E i \in 1..Len(items) :
           items[i].condition = "NEEDS_REPAIR" /\ items[i] \notin {returned.list[k] : k \in 1..Len(returned.list)}

\* the pure queries the managers offer
PureQueries ==
    {"search_by_criteria", "search_by_year_range_and_genre", "search_by_sport_and_weight",
     "sort_by_price", "sort_by_ram_ssd_sum", "sort_by_duration", "sort_by_rating_desc",
     "sort_by_quantity_desc", "get_price_extremes", "filter_by_graphics",
     "calculate_average_duration", "get_top_3_by_rating", "get_statistics",
     "calculate_total_warehouse_value", "get_new_items", "get_heaviest_item"}

\* C15: every pure query leaves the collection with every field of every
\* record, flags and conditions included, and the persisted document as
\* they were, and never calls save: the write count stays the same.
C15_QueriesChangeNothing ==
    [][(pc = "menu" /\ op'.name \in PureQueries) => Untouched]_vars

\* a descending sort_by_price returned an order other than the
\* collection's, after the document had been written
C15_Witness ==
    /\ manager = "ComputerManager" /\ op.name = "sort_by_price" /\ ~args.ascending
    /\ Len(computers) >= 2 /\ returned.list # computers
    /\ writes > 0 /\ document = Serialized

\* C16: a search returns a new sequence for every combination of
\* criteria, none included, so a later add_computer or delete_by_index
\* does not change the result main still holds from an earlier search.
C16_EarlierResultKept ==
    [][(pc = "menu" /\ op'.name \in {"add_computer", "delete_by_index"}) =>
          results'.list = results.list]_vars

\* a is b with some elements left out
RECURSIVE IsSubseq(_, _)
IsSubseq(a, b) ==
    IF a = <<>> THEN TRUE
    ELSE IF b = <<>> THEN FALSE
    ELSE IF a[1] = b[1] THEN IsSubseq(Tail(a), Tail(b))
    ELSE IsSubseq(a, Tail(b))

\* the criteria a with the criterion f taken back
C17_Without(a, f) == [a EXCEPT ![f] = None]

C17_Computers ==
    op.name = "search_by_criteria" =>
        /\ (\A f \in DOMAIN args : args[f] = None) => returned.list = computers
        /\ \A f \in DOMAIN args :
              LET b == C17_Without(args, f)
              IN  IsSubseq(returned.list,
                           search_by_criteria(computers, b.min_ram, b.max_price, b.min_ssd,
                                              b.graphics_required).ret.list)

C17_Movies ==
    op.name = "search_by_year_range_and_genre" =>
        /\ (\A f \in DOMAIN args : args[f] = None) => returned.list = movies
        /\ \A f \in DOMAIN args :
              LET b == C17_Without(args, f)
              IN  IsSubseq(returned.list,
                           search_by_year_range_and_genre(movies, b.year_from, b.year_to,
                                                          b.genre).ret.list)

C17_Items ==
    op.name = "search_by_sport_and_weight" =>
        /\ (\A f \in DOMAIN args : args[f] = None) => returned.list = items
        /\ \A f \in DOMAIN args :
              LET b == C17_Without(args, f)
              IN  IsSubseq(returned.list,
                           search_by_sport_and_weight(items, b.sport_type, b.min_weight,
                                                      b.max_weight).ret.list)

\* C17: a search with no criterion returns every record of the collection
\* in collection order, and the result for a set of criteria is the result
\* for the same set less any one criterion with some records left out: a
\* further criterion never makes the result longer.
C17_CriteriaNarrow == C17_Computers /\ C17_Movies /\ C17_Items

\* max_price on top of min_ram left fewer records, not none
C17_Witness ==
    /\ op.name = "search_by_criteria"
    /\ args.min_ram = Some(16) /\ args.max_price # None
    /\ args.min_ssd = None /\ args.graphics_required = None
    /\ returned.list # <<>>
    /\ Len(returned.list)
          < Len(search_by_criteria(computers, args.min_ram, None, None, None).ret.list)

\* C18: search_by_criteria returns exactly the records that meet every
\* supplied criterion (ram >= min_ram, price <= max_price, ssd >= min_ssd,
\* graphics_required a case-insensitive substring of graphics_card), in
\* collection order; a criterion that is None filters nothing, a supplied
\* 0 is applied like any other number.
C18_ExactlyTheMatches ==
    op.name = "search_by_criteria" =>
        returned.list =
            SelectIdx(computers,
                      {i \in 1..Len(computers) :
                          /\ args.min_ram = None \/ computers[i].ram >= args.min_ram[1]
                          /\ args.max_price = None \/ computers[i].price <= args.max_price[1]
                          /\ args.min_ssd = None \/ computers[i].ssd >= args.min_ssd[1]
                          /\ \/ args.graphics_required = None
                             \/ lower_in(args.graphics_required[1],
                                         computers[i].graphics_card)},
                      1)

\* min_ram = 0 alone left out a record whose ram had been driven below 0
C18_Witness ==
    /\ op.name = "search_by_criteria"
    /\ args.min_ram = Some(0) /\ args.max_price = None
    /\ args.min_ssd = None /\ args.graphics_required = None
    /\ \E i \in 1..Len(computers) : computers[i].ram < 0
    /\ returned.list # <<>> /\ Len(returned.list) < Len(computers)

Reverse(s) == [k \in 1..Len(s) |-> s[Len(s) + 1 - k]]

\* r holds the elements of c, each as often as c does
IsPermutation(r, c) ==
    /\ Len(r) = Len(c)
    /\ \A i \in 1..Len(c) :
          Cardinality({j \in 1..Len(r) : r[j] = c[i]})
              = Cardinality({j \in 1..Len(c) : c[j] = c[i]})

\* r is c sorted by keys (keys[i] the key of c[i], rkeys[k] that of r[k]) in
\* the asked direction, elements of equal key in the order c has them
C19_Sorted(r, rkeys, c, keys, ascending) ==
    /\ IsPermutation(r, c)
    /\ \A k, l \in 1..Len(r) :
          k < l => IF ascending THEN rkeys[k] <= rkeys[l] ELSE rkeys[k] >= rkeys[l]
    /\ \A i, j \in 1..Len(c) :
          (i < j /\ keys[i] = keys[j] /\ c[i] # c[j]) =>
              \E k, l \in 1..Len(r) : k < l /\ r[k] = c[i] /\ r[l] = c[j]

C19_DistinctKeys(keys) == \A i, j \in 1..Len(keys) : i # j => keys[i] # keys[j]

C19_SortByPrice ==
    op.name = "sort_by_price" =>
        LET c == Collection
            r == returned.list
            keys == [i \in 1..Len(c) |-> c[i].price]
        IN  /\ C19_Sorted(r, [k \in 1..Len(r) |-> r[k].price], c, keys, args.ascending)
            /\ (C19_DistinctKeys(keys) /\ ~args.ascending) =>
                  r = Reverse(IF manager = "ComputerManager"
                              THEN ComputerManager_sort_by_price(c, TRUE).ret.list
                              ELSE InventoryManager_sort_by_price(c, TRUE).ret.list)

C19_SortByRamSsdSum ==
    op.name = "sort_by_ram_ssd_sum" =>
        LET r == returned.list
            keys == [i \in 1..Len(computers) |-> computers[i].ram + computers[i].ssd]
        IN  /\ C19_Sorted(r, [k \in 1..Len(r) |-> r[k].ram + r[k].ssd], computers, keys,
                          args.ascending)
            /\ (C19_DistinctKeys(keys) /\ ~args.ascending) =>
                  r = Reverse(sort_by_ram_ssd_sum(computers, TRUE).ret.list)

C19_SortByDuration ==
    op.name = "sort_by_duration" =>
        LET r == returned.list
            keys == [i \in 1..Len(movies) |-> movies[i].duration]
        IN  /\ C19_Sorted(r, [k \in 1..Len(r) |-> r[k].duration], movies, keys,
                          args.ascending)
            /\ (C19_DistinctKeys(keys) /\ ~args.ascending) =>
                  r = Reverse(sort_by_duration(movies, TRUE).ret.list)

\* C19: sort_by_price, sort_by_ram_ssd_sum and sort_by_duration return, for
\* ascending and for descending, a permutation of the collection ordered
\* by the key in that direction; with pairwise distinct keys the
\* descending result is exactly the ascending one reversed; records of
\* equal key keep their collection order in both directions.
C19_StableSorts == C19_SortByPrice /\ C19_SortByRamSsdSum /\ C19_SortByDuration

\* descending by ram + ssd on the seed: ids 3 and 4, both 528, come out in
\* collection order
C19_Witness ==
    /\ op.name = "sort_by_ram_ssd_sum" /\ ~args.ascending
    /\ origin = "seed" /\ Len(computers) = 5
    /\ \E k \in 1..(Len(returned.list) - 1) :
           /\ returned.list[k].id = 3 /\ returned.list[k + 1].id = 4
           /\ returned.list[k].ram + returned.list[k].ssd
                 = returned.list[k + 1].ram + returned.list[k + 1].ssd
    /\ returned.list[1].id = 2

\* C20: get_price_extremes returns the pair (None, None), without raising,
\* on an empty collection; otherwise the pair of the record of the highest
\* price and the record of the lowest price, the first such record in
\* collection order when several share the price.
C20_PriceExtremes ==
    op.name = "get_price_extremes" =>
        /\ returned.kind = "tuple"
        /\ Len(returned.list) = 2
        /\ IF computers = <<>>
           THEN returned.list = <<None, None>>
           ELSE /\ \E i \in 1..Len(computers) :
                      /\ returned.list[1] = computers[i]
                      /\ \A j \in 1..Len(computers) : computers[j].price <= computers[i].price
                      /\ \A j \in 1..(i - 1) : computers[j].price < computers[i].price
                /\ \E i \in 1..Len(computers) :
                      /\ returned.list[2] = computers[i]
                      /\ \A j \in 1..Len(computers) : computers[j].price >= computers[i].price
                      /\ \A j \in 1..(i - 1) : computers[j].price > computers[i].price

\* two records share the highest price and the earlier one was returned
C20_Witness ==
    /\ op.name = "get_price_extremes"
    /\ \E i, j \in 1..Len(computers) :
           /\ i < j /\ computers[i].price = computers[j].price
           /\ computers[i] # computers[j]
           /\ \A k \in 1..Len(computers) : computers[k].price <= computers[i].price
           /\ returned.list[1] = computers[i]

\* the seed collection of the running manager
C21_Seed ==
    CASE manager = "ComputerManager" -> sample_computers
      [] manager = "MovieManager" -> sample_movies
      [] manager = "InventoryManager" -> sample_items

\* C21: constructing a manager while the backing document is absent
\* installs the fixed seed records as the collection and saves them at
\* once: after construction the document exists and is the serialization
\* of the seed collection.
C21_SeedOnAbsentDocument ==
    [][(pc = "start" /\ ~document.exists) =>
          /\ pc' = "menu"
          /\ Collection' = C21_Seed
          /\ document'.exists
          /\ document' = Serialized'
          /\ writes' = writes + 1]_vars

\* a ComputerManager right after construction over no document
C21_Witness ==
    /\ manager = "ComputerManager" /\ op.name = "__init__" /\ origin = "seed"
    /\ Len(computers) = 5 /\ document.exists /\ writes = 1

\* reading the document fails: its text does not parse, or an object lacks
\* a key from_dict reads
C22_LoadFails ==
    /\ document.exists
    /\ \/ ~document.parses
       \/ \E i \in 1..Len(document.data) :
              CASE manager = "ComputerManager" -> GamingComputer_from_dict_raises(document.data[i])
                [] manager = "MovieManager" -> Movie_from_dict_raises(document.data[i])
                [] manager = "InventoryManager" ->
                       SportsEquipment_from_dict_raises(document.data[i])

\* C22: when the document exists but does not parse or a record cannot be
\* rebuilt, construction still completes with nothing raised; the
\* ComputerManager is left with the empty collection and the document
\* untouched, the MovieManager and the InventoryManager with the seed
\* collection, saved at once; no loaded prefix of records stays in the
\* collection.
C22_LoadFailurePolicy ==
    [][(pc = "start" /\ C22_LoadFails) =>
          /\ pc' = "menu"
          /\ returned'.kind = "None"
          /\ IF manager = "ComputerManager"
             THEN computers' = <<>> /\ document' = document /\ writes' = writes
             ELSE /\ Collection' = C21_Seed
                  /\ document' = Serialized'
                  /\ writes' = writes + 1]_vars

\* a ComputerManager constructed over a document whose first object is
\* sound and whose second lacks a key: nothing was kept
C22_Witness ==
    /\ manager = "ComputerManager" /\ op.name = "__init__" /\ origin = "failed"
    /\ computers = <<>>
    /\ document = ComputerDocBadRecord /\ writes = 0

\* what load_data makes of the document save_data writes for the
\* collection in memory
C23_Reloaded ==
    CASE manager = "ComputerManager" ->
             ComputerManager_load_data(ComputerManager_save_data(computers))
      [] manager = "MovieManager" -> MovieManager_load_data(MovieManager_save_data(movies))
      [] manager = "InventoryManager" ->
             InventoryManager_load_data(InventoryManager_save_data(items))

\* C23: round trip. Saving the collection and loading from the written
\* document yields an equal collection: the same records in the same
\* order with the same field values, the is_on_sale and is_epic flags and
\* the Condition member included; so add, then save, then load gives back
\* an equal collection.
C23_RoundTrip ==
    pc # "start" =>
        /\ C23_Reloaded.ret.msg = "loaded"
        /\ C23_Reloaded.saves = <<>>
        /\ C23_Reloaded.coll = Collection

\* after a write_off the inventory holds NEW, GOOD, WORN and NEEDS_REPAIR
\* records and the document just written loads back to it
C23_Witness ==
    /\ manager = "InventoryManager" /\ op.name = "write_off" /\ returned.kind = "True"
    /\ \A c \in {"NEW", "GOOD", "WORN", "NEEDS_REPAIR"} :
           \E i \in 1..Len(items) : items[i].condition = c
    /\ InventoryManager_load_data(document).coll = items

\* C24: save_data overwrites the whole document and is idempotent: after
\* any step that wrote, the document is exactly the serialization of the
\* current records in current order, whatever it held before, and a
\* save_data that follows a save with no mutation between (the exit
\* choice after a saved mutation) leaves the document as it was.
C24_SaveOverwritesIdempotent ==
    /\ [][writes' > writes => document' = Serialized']_vars
    /\ [][(pc = "menu" /\ op'.name = "exit" /\ document = Serialized) =>
             (document' = document /\ Collection' = Collection)]_vars

\* the exit choice saved again after a deletion had been saved: the
\* document holds the two records left, not the three it was loaded with
C24_Witness ==
    /\ manager = "ComputerManager" /\ origin = "loaded" /\ pc = "done"
    /\ writes >= 2
    /\ Len(computers) = 2 /\ Len(document.data) = 2
    /\ document = Serialized

\* C25: a failure of the document store during the save of a mutating
\* operation halts the operation and reaches the caller: the call raises,
\* reports no success, and the script ends; data is not lost silently: a
\* step of a mutating operation that reports success has the document
\* equal to the serialization of the collection, and a step that leaves
\* the document holding neither what it held nor the collection has
\* raised.
C25_SaveFailureHalts ==
    /\ [](returned.kind = "OSError" =>
             (pc = "crashed" /\ returned.msg \notin SuccessMsgs))
    /\ [][(pc = "menu" /\ op'.name \in MutatingOps) =>
             /\ returned'.msg \in SuccessMsgs => document' = Serialized'
             /\ (document' # document /\ document' # Serialized') =>
                   (returned'.kind = "OSError" /\ pc' = "crashed")]_vars

\* add_computer on the seeded collection whose save failed after the file
\* had been opened: the file no longer holds the seed, the call raised
C25_Witness ==
    /\ manager = "ComputerManager" /\ origin = "seed"
    /\ op.name = "add_computer" /\ returned.kind = "OSError" /\ pc = "crashed"
    /\ document = GarbageDocument
    /\ Len(computers) = 6

\* what tells a record from the others through its field updates: the id
\* with the model, title or name
C26_Identity(s) ==
    [i \in 1..Len(s) |->
        <<s[i].id, CASE manager = "ComputerManager" -> s[i].model
                     [] manager = "MovieManager" -> s[i].title
                     [] manager = "InventoryManager" -> s[i].name>>]

\* C26: insertion order is preserved. Every menu choice leaves the records
\* that stay in the collection in the relative order they had, and a
\* record add_computer adds comes last: the collection after the step is
\* the one before with some records left out, then at most the added one;
\* a sort never reorders the stored collection.
C26_InsertionOrderKept ==
    [][pc = "menu" =>
          LET old == C26_Identity(Collection)
              new == C26_Identity(Collection')
          IN  /\ \/ IsSubseq(new, old)
                 \/ /\ op'.name = "add_computer" /\ new # <<>>
                    /\ IsSubseq(SubSeq(new, 1, Len(new) - 1), old)
              /\ op'.name \in PureQueries => Collection' = Collection]_vars

\* delete_by_index(1) on the seed: 1, 3, 4, 5 are left, in that order
C26_Witness ==
    /\ manager = "ComputerManager" /\ origin = "seed"
    /\ op = Call("delete_by_index", 0, 1) /\ returned.msg = "deleted"
    /\ [i \in 1..Len(computers) |-> computers[i].id] = <<1, 3, 4, 5>>

\* C27: after any successful mutation every record id in the
\* ComputerManager collection is a positive integer: add_computer never
\* leaves a record with id <= 0 in the collection.
C27_IdsPositive ==
    (manager = "ComputerManager" /\ op.name \in MutatingOps /\ returned.msg \in SuccessMsgs) =>
        \A i \in 1..Len(computers) : computers[i].id > 0

\* a record of items is still in items' as the record j
C28_Same(i, j) == items'[j].id = items[i].id /\ items'[j].name = items[i].name

\* C28: mark_for_repair changes a record only from GOOD or WORN to
\* NEEDS_REPAIR and never changes a NEW record; NEEDS_REPAIR is absorbing:
\* no InventoryManager operation takes a record out of it; a second
\* mark_for_repair right after the first changes nothing, returns the
\* empty list and does not save.
C28_RepairMarking ==
    /\ [][(pc = "menu" /\ op'.name = "mark_for_repair") =>
             /\ Len(items') = Len(items)
             /\ \A i \in 1..Len(items) :
                   items'[i] # items[i] =>
                       /\ items[i].condition \in {"GOOD", "WORN"}
                       /\ items'[i] = [items[i] EXCEPT !.condition = "NEEDS_REPAIR"]]_vars
    /\ [][(pc = "menu" /\ manager = "InventoryManager") =>
             \A i \in 1..Len(items), j \in 1..Len(items') :
                 (C28_Same(i, j) /\ items[i].condition = "NEEDS_REPAIR") =>
                     items'[j].condition = "NEEDS_REPAIR"]_vars
    /\ [][(pc = "menu" /\ op.name = "mark_for_repair" /\ op'.name = "mark_for_repair") =>
             (Untouched /\ returned'.kind = "list" /\ returned'.list = <<>>)]_vars

\* on the seeded inventory a mark_for_repair found nothing left to mark,
\* NEW records standing next to the marked ones
C28_Witness ==
    /\ manager = "InventoryManager" /\ origin = "seed"
    /\ op.name = "mark_for_repair" /\ returned.msg = "none_to_mark"
    /\ returned.list = <<>> /\ writes = 2
    /\ \E i \in 1..Len(items) : items[i].condition = "NEW"
    /\ Cardinality({i \in 1..Len(items) : items[i].condition = "NEEDS_REPAIR"}) >= 2

\* is_epic holds exactly for the movies longer than 150 minutes
C29_EpicIffLong(ms) == \A i \in 1..Len(ms) : ms[i].is_epic <=> ms[i].duration > 150

\* C29: the is_epic flag changes only when an operation sets it. After
\* seeding it holds exactly for the movies with duration > 150; every
\* operation other than a mark_epic_movies with another threshold keeps
\* that equivalence; under any threshold no operation takes the flag from
\* true to false; a second mark_epic_movies with the same threshold right
\* after the first marks nothing and does not save.
C29_EpicFlag ==
    /\ []((manager = "MovieManager" /\ op.name = "__init__" /\ origin \in {"seed", "failed"})
             => C29_EpicIffLong(movies))
    /\ [][(/\ pc = "menu" /\ manager = "MovieManager"
           /\ C29_EpicIffLong(movies)
           /\ op'.name = "mark_epic_movies" => op'.n = 150) =>
             C29_EpicIffLong(movies')]_vars
    /\ [][(pc = "menu" /\ manager = "MovieManager") =>
             /\ Len(movies') = Len(movies)
             /\ \A i \in 1..Len(movies) : movies[i].is_epic => movies'[i].is_epic]_vars
    /\ [][(pc = "menu" /\ op.name = "mark_epic_movies" /\ op' = op) =>
             (Untouched /\ returned'.kind = "list" /\ returned'.list = <<>>)]_vars

\* the second mark_epic_movies(120) on the seed: nothing new, movies of
\* 150 minutes or less carry the flag
C29_Witness ==
    /\ manager = "MovieManager" /\ origin = "seed"
    /\ op = Call("mark_epic_movies", 0, 120) /\ returned.msg = "none_new"
    /\ writes = 2
    /\ \E i \in 1..Len(movies) : movies[i].is_epic /\ movies[i].duration <= 150

C31_Ops == {"add_computer", "delete_by_id", "delete_by_index", "upgrade_ram", "mark_as_sale"}

\* what each operation has done to the collection when it calls save_data
C31_Mutated ==
    LET k == FirstWithId(computers, op'.id)
    IN  CASE op'.name = "add_computer" ->
                 /\ ~HasId(computers, op'.id)
                 /\ computers' = Append(computers, NewComputer(op'.id))
          [] op'.name = "delete_by_id" ->
                 /\ HasId(computers, op'.id)
                 /\ ~HasId(computers', op'.id)
                 /\ computers' = SelectSeq(computers, LAMBDA c : c.id # op'.id)
          [] op'.name = "delete_by_index" ->
                 /\ op'.n \in 0..(Len(computers) - 1)
                 /\ computers' = SubSeq(computers, 1, op'.n)
                                    \o SubSeq(computers, op'.n + 2, Len(computers))
          [] op'.name = "upgrade_ram" ->
                 /\ k # 0
                 /\ computers' = [computers EXCEPT ![k].ram = @ + op'.n]
          [] op'.name = "mark_as_sale" ->
                 /\ k # 0 /\ ~computers[k].is_on_sale
                 /\ computers' = [computers EXCEPT ![k].is_on_sale = TRUE,
                                                   ![k].price = (@ * 9) \div 10]

\* C31: every mutating operation changes the collection in memory before
\* it calls save_data. When the save fails during add_computer,
\* delete_by_id, delete_by_index, upgrade_ram or mark_as_sale, the state
\* reached has the mutation in the in-memory collection and not in the
\* persisted document: the document is the one from before the call or a
\* truncated one, never the serialization of the collection, and the
\* collection is not put back.
C31_MutatedBeforeSave ==
    [][(pc = "menu" /\ op'.name \in C31_Ops /\ returned'.kind = "OSError") =>
          /\ C31_Mutated
          /\ computers' # computers
          /\ document' \in {document, GarbageDocument}
          /\ document' # ComputerManager_save_data(computers')]_vars

\* after a saved update of a record, an add_computer whose save could not open the
\* file: six records in memory, the document still holds the five
C31_Witness ==
    /\ manager = "ComputerManager" /\ origin = "seed" /\ pc = "crashed"
    /\ op.name = "add_computer" /\ returned.kind = "OSError"
    /\ Len(computers) = 6 /\ HasId(computers, op.id)
    /\ writes = 3
    /\ document = ComputerManager_save_data(SubSeq(computers, 1, 5))

\* C32: the life cycle of a manager ends persisted. The exit choice calls
\* save_data and then leaves the loop, so at termination the document is
\* the serialization of the in-memory collection, which the exit did not
\* change. For ComputerManager this holds after a load failure too: an
\* exit with no mutation before it replaces the unreadable document with
\* the empty array.
C32_ExitPersists ==
    /\ [](pc = "done" => (op.name = "exit" /\ document = Serialized))
    /\ [][(pc = "menu" /\ op'.name = "exit") =>
             /\ pc' = "done"
             /\ Collection' = Collection
             /\ writes' = writes + 1
             /\ document' = Serialized']_vars
    /\ [][(/\ pc = "menu" /\ manager = "ComputerManager" /\ origin = "failed"
           /\ writes = 0 /\ op'.name = "exit") =>
             /\ ComputerManager_load_data(document).ret.msg = "load_error"
             /\ computers = <<>>
             /\ document' = json_dump(<<>>)
             /\ document' # document]_vars

\* ComputerManager over a file that json.load rejects, left by the exit
\* choice with nothing else written: the file holds the empty array
C32_Witness ==
    /\ manager = "ComputerManager" /\ origin = "failed" /\ pc = "done"
    /\ op.name = "exit" /\ writes = 1
    /\ computers = <<>> /\ document = json_dump(<<>>)

====
